---------------------------- MODULE Spec2Model ----------------------------
(***************************************************************************)
(* Model of the meeting-analysis call of src/appver2.py.                   *)
(*                                                                         *)
(* The source text holds two definitions of the analysis call:             *)
(*   get_structured_notes_google (three sections, polling loop, transcript *)
(*                                fallback)                                *)
(*   analyze_audio_gemini        (four sections, blocking wait)            *)
(* Both are modelled; the variable fn says which one a call runs.          *)
(*                                                                         *)
(* Text is a sequence of tokens.  In a model response the token "##" is    *)
(* the two characters of a marker's delimiter, " OVERVIEW ",               *)
(* " DISCUSSION ", " NEXT STEPS " and " CLIENT REQUESTS " are the middle   *)
(* parts of the four markers, " " and "\n" are whitespace characters and   *)
(* every other token is an ordinary character.                             *)
(***************************************************************************)
EXTENDS Integers, Sequences, FiniteSets, TLC

VARIABLES
    fn,          \* the function the current call runs
    pc,          \* position inside the call
    calls,       \* external calls issued by the current call, in order
    flacExists,  \* the transcoded local FLAC file exists
    blobNamed,   \* get_structured_notes_google: flac_blob_name is assigned
    gcs_uri,     \* what upload_to_gcs returned ("" is None)
    opDone,      \* the remote recognition job reports done()
    answered,    \* operation.result() has returned a response
    results,     \* response.results of the recognition job
    transcript,  \* full_transcript_text / transcript
    text,        \* the generative model's response text
    ret,         \* the value returned to the caller
    raised       \* an exception left the call

\* get_visual_metadata
VARIABLES
    mpc,          \* position inside get_visual_metadata
    result_data,  \* the struct being filled, then the value returned
    thumb,        \* temp_thumb.jpg exists
    probe,        \* what ffprobe answered
    vision,       \* what the vision call answered
    mcalls,       \* external calls issued by get_visual_metadata, in order
    mraised       \* an exception left get_visual_metadata

\* the session (st.session_state), the widgets, the drive and the chat turn
VARIABLES
    participants,            \* the text in the participants text area
    chat_history,            \* st.session_state.chat_history
    ai_results,              \* st.session_state.ai_results
    saved_participants_input, \* st.session_state.saved_participants_input
    saved_participants,      \* st.session_state.saved_participants
    auto_client_reps,        \* st.session_state.auto_client_reps
    auto_ifoundries_reps,    \* st.session_state.auto_ifoundries_reps
    crep,                    \* st.session_state.crep
    irep,                    \* st.session_state.irep
    gdrive_creds,            \* the user is logged in to the drive
    drive,                   \* the snapshots in Meeting_Data, oldest first
    chatLogged,              \* a chat log has been uploaded to the Chats folder
    res,                     \* what the analysis returned to the last Analyze
    saves,                   \* snapshots written by the last Analyze
    cpc,                     \* position inside the chat turn
    fragments,               \* the fragments rendered so far in this turn
    last,                    \* the handler that ran last
    errors,                  \* error boxes shown by the last handler
    uncaught,                \* an exception left the last handler
    tmp,                     \* a temporary copy of an upload is on the disk
    detected                 \* st.session_state.detected_date, _time, _title, _venue

\* the paragraph being rendered
VARIABLES
    rpc,          \* the renderer that has run, "idle" before
    body,         \* the text handed to the renderer
    paragraphs    \* the elements added, each with its runs

\* the distribution of the minutes
VARIABLES
    dist          \* what the last Generate handler did, Pending before

callVars == <<fn, pc, calls, flacExists, blobNamed, gcs_uri, opDone, answered,
              results, transcript, text, ret, raised>>

metaVars == <<mpc, result_data, thumb, probe, vision, mcalls, mraised>>

sessionVars == <<participants, chat_history, ai_results,
                 saved_participants_input, saved_participants,
                 auto_client_reps, auto_ifoundries_reps, crep, irep,
                 gdrive_creds, drive, chatLogged, res, saves, cpc,
                 fragments, last, errors, uncaught, tmp, detected>>

renderVars == <<rpc, body, paragraphs>>

distVars == <<dist>>

\* everything but the locals of the analysis call
outsideCall == <<metaVars, sessionVars, renderVars, distVars>>

vars == <<callVars, metaVars, sessionVars, renderVars, distVars>>

----------------------------------------------------------------------------
(* Bounds of the model *)

MaxSegs == 4

MaxWords == 3

MaxTag == 2

MaxResults == 2

MaxLines == 2

MaxHistory == 2

MaxChunks == 2

MaxSnapshots == 1

MaxBody == 4

----------------------------------------------------------------------------
(* Python str operations on token sequences *)

Whitespace == {" ", "\n"}

\* m occurs in s at position i
OccursAt(s, m, i) ==
    /\ i >= 1
    /\ i + Len(m) - 1 <= Len(s)
    /\ \A k \in 1..Len(m) : s[i + k - 1] = m[k]

RECURSIVE FindFrom(_, _, _)
\* the first position at or after i at which m occurs in s, 0 when none
FindFrom(s, m, i) ==
    IF i + Len(m) - 1 > Len(s) THEN 0
    ELSE IF OccursAt(s, m, i) THEN i
    ELSE FindFrom(s, m, i + 1)

\* s.find(m) + 1, and 0 when m is not in s
Find(s, m) == FindFrom(s, m, 1)

\* m in s
Contains(s, m) == Find(s, m) # 0

RECURSIVE Split(_, _)
\* s.split(m): the pieces of s between the occurrences of m, scanned left to
\* right without overlap
Split(s, m) ==
    LET i == Find(s, m) IN
    IF i = 0 THEN <<s>>
    ELSE <<SubSeq(s, 1, i - 1)>> \o Split(SubSeq(s, i + Len(m), Len(s)), m)

RECURSIVE LStrip(_)
LStrip(s) ==
    IF s # <<>> /\ Head(s) \in Whitespace THEN LStrip(Tail(s)) ELSE s

RECURSIVE RStrip(_)
RStrip(s) ==
    IF s # <<>> /\ s[Len(s)] \in Whitespace
    THEN RStrip(SubSeq(s, 1, Len(s) - 1)) ELSE s

\* s.lstrip() where s.strip() was meant
StripLeftOnly(s) == LStrip(s)

\* s.strip()
Strip(s) == RStrip(LStrip(s))

----------------------------------------------------------------------------
(* Section markers and section parsing *)

MARK_OVERVIEW == <<"##", " OVERVIEW ", "##">>

MARK_DISCUSSION == <<"##", " DISCUSSION ", "##">>

MARK_NEXT_STEPS == <<"##", " NEXT STEPS ", "##">>

MARK_CLIENT_REQUESTS == <<"##", " CLIENT REQUESTS ", "##">>

Markers == {MARK_OVERVIEW, MARK_DISCUSSION, MARK_NEXT_STEPS, MARK_CLIENT_REQUESTS}

\* t.split(m)[1]: the piece after the first occurrence of m (m is in t)
AfterMarker(t, m) == Split(t, m)[2]

\* s where s.split(m)[0] was meant
BeforeMarkerWhole(s, m) == s

\* s.split(m)[0]: the piece before the first occurrence of m, or all of s
BeforeMarker(s, m) == Split(s, m)[1]

\* t.split(m)[1].split(nxt)[0].strip(), guarded by `m in t`
SectionBetween(t, m, nxt) ==
    IF Contains(t, m) THEN Strip(BeforeMarker(AfterMarker(t, m), nxt)) ELSE <<>>

\* t.split(m)[-1].strip() without the guard
SectionToEndUnguarded(t, m) == Strip(Split(t, m)[Len(Split(t, m))])

\* t.split(m)[1].strip(), guarded by `m in t`
SectionToEnd(t, m) ==
    IF Contains(t, m) THEN Strip(AfterMarker(t, m)) ELSE <<>>

\* get_structured_notes_google: `if not discussion: discussion = text`
DiscussionOrText(discussion, t) == IF discussion = <<>> THEN t ELSE discussion

\* the dict get_structured_notes_google returns for response t
ParseNotesGoogle(t, full) ==
    [discussion |-> DiscussionOrText(
                        SectionBetween(t, MARK_DISCUSSION, MARK_NEXT_STEPS), t),
     next_steps |-> SectionBetween(t, MARK_NEXT_STEPS, MARK_CLIENT_REQUESTS),
     client_reqs |-> SectionToEnd(t, MARK_CLIENT_REQUESTS),
     full_transcript |-> full]

\* the dict analyze_audio_gemini returns for response t
ParseAudioGemini(t, full) ==
    [overview |-> SectionBetween(t, MARK_OVERVIEW, MARK_DISCUSSION),
     discussion |-> SectionBetween(t, MARK_DISCUSSION, MARK_NEXT_STEPS),
     next_steps |-> SectionBetween(t, MARK_NEXT_STEPS, MARK_CLIENT_REQUESTS),
     client_reqs |-> SectionToEnd(t, MARK_CLIENT_REQUESTS),
     full_transcript |-> full]

----------------------------------------------------------------------------
(* Recognition results and their linearization *)

Tags == 0..MaxTag

WordTexts == {"hello", "ok"}

WordInfo == [word : WordTexts, speaker_tag : Tags]

\* the elements of a sequence
Range(q) == {q[i] : i \in 1..Len(q)}

\* every sequence over S of length at most n
SeqUpTo(S, n) == UNION {[1..k -> S] : k \in 0..n}

WordSeqs == SeqUpTo(WordInfo, MaxWords)

\* f"\n\nSpeaker {current_speaker}: "
SpeakerLabel(tag) == "\n\nSpeaker " \o ToString(tag) \o ": "

Labels == {SpeakerLabel(t) : t \in Tags}

RECURSIVE LinearizeFrom(_, _, _)
\* the loop over the words: a label whenever the tag differs from
\* current_speaker, then the word and a blank
LinearizeFrom(words, current_speaker, acc) ==
    IF words = <<>> THEN acc
    ELSE LET w == Head(words)
             labelled == IF w.speaker_tag # current_speaker
                         THEN Append(acc, SpeakerLabel(w.speaker_tag))
                         ELSE acc
         IN LinearizeFrom(Tail(words), w.speaker_tag,
                          labelled \o <<w.word, " ">>)

\* the loop started with current_speaker = 0
LinearizeWordsFromZero(words) == LinearizeFrom(words, 0, <<>>)

\* current_speaker = -1; transcript = ""; the loop
LinearizeWords(words) == LinearizeFrom(words, -1, <<>>)

\* response.results[-1]
LastResult(rs) == rs[Len(rs)]

\* not s.strip()
IsBlank(s) == Strip(s) = <<>>

RECURSIVE JoinTranscripts(_)
\* " ".join([result.alternatives[0].transcript for result in response.results])
JoinTranscripts(rs) ==
    IF rs = <<>> THEN <<>>
    ELSE IF Len(rs) = 1 THEN <<rs[1].transcript>>
    ELSE <<rs[1].transcript, " ">> \o JoinTranscripts(Tail(rs))

\* get_structured_notes_google: the loop, then the fallback to the plain
\* transcripts when the loop produced nothing
TranscriptGoogle(rs) ==
    LET t == LinearizeWords(LastResult(rs).words)
    IN IF IsBlank(t) THEN JoinTranscripts(rs) ELSE t

\* analyze_audio_gemini: the loop alone
TranscriptGemini(rs) == LinearizeWords(LastResult(rs).words)

----------------------------------------------------------------------------
(* Inputs of the analysis call *)

GOOGLE == "get_structured_notes_google"

GEMINI == "analyze_audio_gemini"

Functions == {GOOGLE, GEMINI}

PlainTranscripts == {"hi there", "bye"}

SampleWords ==
    {<<>>,
     <<[word |-> "hello", speaker_tag |-> 1]>>,
     <<[word |-> "hello", speaker_tag |-> 1], [word |-> "ok", speaker_tag |-> 2]>>}

\* what the recognition job may answer in the call's specification
RecognitionResponses ==
    SeqUpTo([transcript : PlainTranscripts, words : SampleWords], MaxResults)

\* a model response whose four markers stand in the prompt's order
Canonical(a, b, c, d) ==
    MARK_OVERVIEW \o a \o MARK_DISCUSSION \o b \o MARK_NEXT_STEPS \o c
        \o MARK_CLIENT_REQUESTS \o d

\* what the generative model may answer in the call's specification
SampleResponses ==
    {<<>>,
     <<"a", " ", "b">>,
     Canonical(<<"\n", "a", "\n">>, <<"\n", "b", "\n">>, <<"\n", "c", "\n">>,
               <<"\n", "d">>),
     MARK_OVERVIEW \o <<"a">> \o MARK_NEXT_STEPS \o <<"c">>,
     MARK_DISCUSSION \o <<" ", "b">> \o MARK_CLIENT_REQUESTS \o <<"d">>}

\* the body of the k-th segment of a response: an ordinary character of its
\* own between whitespace
Body(k) == <<" ", ToString(k), "\n">>

RECURSIVE TextsOf(_)
\* every concatenation of exactly n segments, a segment being one of the four
\* markers followed by an empty body or by the segment's own body
TextsOf(n) ==
    IF n = 0 THEN {<<>>}
    ELSE {s \o m \o b : s \in TextsOf(n - 1), m \in Markers, b \in {<<>>, Body(n)}}

\* every concatenation of at most n segments
MarkedTexts(n) == UNION {TextsOf(k) : k \in 0..n}

\* the responses the parsing is checked on: leading text or none, then
\* at most MaxSegs segments
Responses == {pre \o t : pre \in {<<>>, Body(0)}, t \in MarkedTexts(MaxSegs)}

----------------------------------------------------------------------------
(* The state outside the analysis call, before anything has run *)

\* a value not there yet: nothing returned, nothing answered
Pending == [pending |-> <<>>]

\* get_visual_metadata has not been called
MetaIdle ==
    /\ mpc = "idle"
    /\ result_data = Pending
    /\ thumb = FALSE
    /\ probe = Pending
    /\ vision = Pending
    /\ mcalls = <<>>
    /\ mraised = FALSE

\* the text area's initial value: "Client (Client)\niFoundries (iFoundries)"
DEFAULT_PARTICIPANTS ==
    <<"Client", " ", "(Client)", "\n", "iFoundries", " ", "(iFoundries)">>

\* detected_date and detected_time None, detected_title and detected_venue
\* as the first run sets them
DETECTED_FRESH ==
    [date |-> <<>>, time |-> <<>>, title |-> <<"Meeting_Minutes">>, venue |-> <<>>]

\* the session state as the script's first run sets it, the drive empty (a key
\* the running revision never initialises is the empty string here)
SessionFresh ==
    /\ chat_history = <<>>
    /\ ai_results = IF fn = GOOGLE
                    THEN [discussion |-> <<>>, next_steps |-> <<>>,
                          client_reqs |-> <<>>, full_transcript |-> <<>>]
                    ELSE <<>>
    /\ saved_participants_input = <<>>
    /\ saved_participants = <<>>
    /\ auto_client_reps = <<>>
    /\ auto_ifoundries_reps = <<>>
    /\ crep = <<>>
    /\ irep = <<>>
    /\ drive = <<>>
    /\ chatLogged = FALSE
    /\ res = Pending
    /\ saves = 0
    /\ cpc = "idle"
    /\ fragments = <<>>
    /\ last = "start"
    /\ errors = 0
    /\ uncaught = FALSE
    /\ tmp = FALSE
    /\ detected = DETECTED_FRESH

\* nothing is being rendered, nothing has been distributed
RenderIdle ==
    /\ rpc = "idle"
    /\ body = <<>>
    /\ paragraphs = <<>>
    /\ dist = Pending

----------------------------------------------------------------------------
(* The analysis call, one action per step of its body *)

\* ret before the call has returned anything
NoReturn == [pending |-> <<>>]

\* the exceptions the body of the try can raise; str(e) is modelled by the
\* exception's name
Exceptions ==
    {"CalledProcessError", "FileNotFoundError", "GoogleAPICallError",
     "IndexError", "ValueError"}

\* an except clause naming the API's exception only
CaughtOnlyApiErrors(e) == e = "GoogleAPICallError"

\* `except Exception as e` around the whole body
CaughtByExcept(e) == e \in Exceptions

\* return {"error": str(e)}
ErrorDict(msg) == [error |-> <<msg>>]

\* an exception raised inside the try: the except clause turns it into the
\* returned value, and control goes to the finally block
Raise(e) ==
    /\ pc' = "finally"
    /\ IF CaughtByExcept(e)
       THEN ret' = ErrorDict(e) /\ raised' = raised
       ELSE ret' = ret /\ raised' = TRUE

\* `return value` inside the try: the finally block still runs
Return(value) ==
    /\ pc' = "finally"
    /\ ret' = value
    /\ raised' = raised

\* upload_to_gcs: the uri, or None ("") when upload_from_filename raises
upload_to_gcs(fileExists, serviceOk) ==
    IF fileExists /\ serviceOk THEN "gs://bucket/audio.flac" ELSE ""

\* a check of the uri that never fires
NotUriNever(uri) == FALSE

\* `not uri`
NotUri(uri) == uri = ""

\* the finally block's `except: pass`
DeleteErrorSwallowed == TRUE

\* no analysis call is running and none has run
CallIdle ==
    /\ pc = "idle"
    /\ calls = <<>>
    /\ flacExists = FALSE
    /\ blobNamed = FALSE
    /\ gcs_uri = ""
    /\ opDone = FALSE
    /\ answered = FALSE
    /\ results = <<>>
    /\ transcript = <<>>
    /\ text = <<>>
    /\ ret = NoReturn
    /\ raised = FALSE

Init ==
    /\ fn = GOOGLE
    /\ pc = "idle"
    /\ calls = <<>>
    /\ flacExists = FALSE
    /\ blobNamed = FALSE
    /\ gcs_uri = ""
    /\ opDone = FALSE
    /\ answered = FALSE
    /\ results = <<>>
    /\ transcript = <<>>
    /\ text = <<>>
    /\ ret = NoReturn
    /\ raised = FALSE
    /\ MetaIdle
    /\ SessionFresh
    /\ participants = DEFAULT_PARTICIPANTS
    /\ gdrive_creds = FALSE
    /\ RenderIdle

\* the caller invokes one of the two functions on a fresh temporary file
Call ==
    /\ pc \in {"idle", "done"}
    /\ fn' \in Functions
    /\ pc' = "convert"
    /\ calls' = <<>>
    /\ flacExists' = FALSE
    /\ blobNamed' = FALSE
    /\ gcs_uri' = ""
    /\ opDone' = FALSE
    /\ answered' = FALSE
    /\ results' = <<>>
    /\ transcript' = <<>>
    /\ text' = <<>>
    /\ ret' = NoReturn
    /\ raised' = FALSE
    /\ dist' = Pending
    /\ UNCHANGED <<metaVars, sessionVars, renderVars>>

\* ffmpeg to FLAC: with check=True in get_structured_notes_google (a non-zero
\* exit raises), without it in analyze_audio_gemini (only a missing ffmpeg
\* raises, a non-zero exit goes on without the file)
Convert ==
    /\ pc = "convert"
    /\ calls' = Append(calls, "ffmpeg")
    /\ \E outcome \in {"ok", "nonzero", "missing"} :
         IF outcome = "ok"
         THEN /\ flacExists' = TRUE
              /\ pc' = "upload"
              /\ UNCHANGED <<ret, raised>>
         ELSE IF outcome = "nonzero" /\ fn = GEMINI
         THEN /\ flacExists' = FALSE
              /\ pc' = "upload"
              /\ UNCHANGED <<ret, raised>>
         ELSE /\ flacExists' = FALSE
              /\ Raise(IF outcome = "nonzero" THEN "CalledProcessError"
                       ELSE "FileNotFoundError")
    /\ UNCHANGED <<fn, blobNamed, gcs_uri, opDone, answered, results,
                   transcript, text>>
    /\ UNCHANGED outsideCall

\* upload of the FLAC file; `if not uri: return {"error": ...}`
Upload ==
    /\ pc = "upload"
    /\ calls' = Append(calls, "upload")
    /\ blobNamed' = TRUE
    /\ \E serviceOk \in BOOLEAN :
         /\ gcs_uri' = upload_to_gcs(flacExists, serviceOk)
         /\ IF NotUri(gcs_uri')
            THEN Return(ErrorDict(IF fn = GOOGLE THEN "Upload failed."
                                  ELSE "Upload failed"))
            ELSE pc' = "submit" /\ UNCHANGED <<ret, raised>>
    /\ UNCHANGED <<fn, flacExists, opDone, answered, results, transcript, text>>
    /\ UNCHANGED outsideCall

\* long_running_recognize(config, audio)
Submit ==
    /\ pc = "submit"
    /\ calls' = Append(calls, "recognize")
    /\ \E ok \in BOOLEAN :
         IF ok
         THEN /\ pc' = IF fn = GOOGLE THEN "poll" ELSE "await"
              /\ UNCHANGED <<ret, raised>>
         ELSE Raise("GoogleAPICallError")
    /\ UNCHANGED <<fn, flacExists, blobNamed, gcs_uri, opDone, answered,
                   results, transcript, text>>
    /\ UNCHANGED outsideCall

\* the remote job finishes
JobCompletes ==
    /\ pc \in {"poll", "await"}
    /\ ~opDone
    /\ opDone' = TRUE
    /\ UNCHANGED <<fn, pc, calls, flacExists, blobNamed, gcs_uri, answered,
                   results, transcript, text, ret, raised>>
    /\ UNCHANGED outsideCall

\* get_structured_notes_google: while not operation.done(): time.sleep(2)
Poll ==
    /\ pc = "poll"
    /\ fn = GOOGLE
    /\ pc' = IF opDone THEN "await" ELSE "poll"
    /\ UNCHANGED <<fn, calls, flacExists, blobNamed, gcs_uri, opDone, answered,
                   results, transcript, text, ret, raised>>
    /\ UNCHANGED outsideCall

\* operation.result(timeout=3600): the results of a finished job, or an
\* exception (the job failed, or the timeout passed); then, in
\* get_structured_notes_google, `if not response.results: return {"error"}`
Await ==
    /\ pc = "await"
    /\ \/ /\ opDone
          /\ answered' = TRUE
          /\ \E r \in RecognitionResponses :
               /\ results' = r
               /\ IF fn = GOOGLE /\ r = <<>>
                  THEN Return(ErrorDict(
                         "Transcription failed. The audio might be silent."))
                  ELSE pc' = "linearize" /\ UNCHANGED <<ret, raised>>
       \/ /\ Raise("GoogleAPICallError")
          /\ UNCHANGED <<answered, results>>
    /\ UNCHANGED <<fn, calls, flacExists, blobNamed, gcs_uri, opDone,
                   transcript, text>>
    /\ UNCHANGED outsideCall

\* a linearization that skips an empty result list instead of indexing it
LinearizeUnchecked ==
    /\ pc = "linearize"
    /\ transcript' = IF results = <<>> THEN <<>>
                     ELSE IF fn = GOOGLE THEN TranscriptGoogle(results)
                     ELSE TranscriptGemini(results)
    /\ pc' = "generate"
    /\ UNCHANGED <<fn, calls, flacExists, blobNamed, gcs_uri, opDone, answered,
                   results, text, ret, raised>>
    /\ UNCHANGED outsideCall

\* the transcript from the words of results[-1]; results[-1] of an empty
\* list raises IndexError
Linearize ==
    /\ pc = "linearize"
    /\ IF results = <<>>
       THEN /\ Raise("IndexError")
            /\ transcript' = transcript
       ELSE /\ transcript' = IF fn = GOOGLE THEN TranscriptGoogle(results)
                             ELSE TranscriptGemini(results)
            /\ pc' = "generate"
            /\ UNCHANGED <<ret, raised>>
    /\ UNCHANGED <<fn, calls, flacExists, blobNamed, gcs_uri, opDone, answered,
                   results, text>>
    /\ UNCHANGED outsideCall

\* gemini_model.generate_content(prompt).text: an answer, or an exception
Generate ==
    /\ pc = "generate"
    /\ calls' = Append(calls, "generate")
    /\ \/ \E r \in SampleResponses :
            /\ text' = r
            /\ pc' = "parse"
            /\ UNCHANGED <<ret, raised>>
       \/ /\ Raise("ValueError")
          /\ text' = text
    /\ UNCHANGED <<fn, flacExists, blobNamed, gcs_uri, opDone, answered,
                   results, transcript>>
    /\ UNCHANGED outsideCall

\* the section parsing and the return of the dict
Parse ==
    /\ pc = "parse"
    /\ Return(IF fn = GOOGLE THEN ParseNotesGoogle(text, transcript)
              ELSE ParseAudioGemini(text, transcript))
    /\ UNCHANGED <<fn, calls, flacExists, blobNamed, gcs_uri, opDone, answered,
                   results, transcript, text>>
    /\ UNCHANGED outsideCall

\* finally: delete the uploaded object, any failure swallowed.  In
\* get_structured_notes_google the blob name is the local flac_blob_name,
\* unassigned (NameError, swallowed) when the body left before the upload.
Finally ==
    /\ pc = "finally"
    /\ pc' = "done"
    /\ IF fn = GOOGLE /\ ~blobNamed
       THEN /\ calls' = calls
            /\ raised' = (raised \/ ~DeleteErrorSwallowed)
       ELSE /\ calls' = Append(calls, "delete")
            /\ \E deleteOk \in BOOLEAN :
                 raised' = (raised \/ (~deleteOk /\ ~DeleteErrorSwallowed))
    /\ UNCHANGED <<fn, flacExists, blobNamed, gcs_uri, opDone, answered,
                   results, transcript, text, ret>>
    /\ UNCHANGED outsideCall

Next ==
    \/ Call
    \/ Convert
    \/ Upload
    \/ Submit
    \/ JobCompletes
    \/ Poll
    \/ Await
    \/ Linearize
    \/ Generate
    \/ Parse
    \/ Finally

Spec == Init /\ [][Next]_vars

----------------------------------------------------------------------------
(* The section parsing alone, over every response of the bounded set *)

\* a recognition response with one labelled turn
OneTurn == <<[transcript |-> "hi there",
              words |-> <<[word |-> "hello", speaker_tag |-> 1]>>]>>

\* the call stands before its parsing step with some response in hand
InitParse ==
    /\ fn \in Functions
    /\ pc = "parse"
    /\ calls = <<"ffmpeg", "upload", "recognize", "generate">>
    /\ flacExists = TRUE
    /\ blobNamed = TRUE
    /\ gcs_uri = upload_to_gcs(TRUE, TRUE)
    /\ opDone = TRUE
    /\ answered = TRUE
    /\ results = OneTurn
    /\ transcript = LinearizeWords(OneTurn[1].words)
    /\ text \in Responses
    /\ ret = NoReturn
    /\ raised = FALSE
    /\ MetaIdle
    /\ SessionFresh
    /\ participants = DEFAULT_PARTICIPANTS
    /\ gdrive_creds = FALSE
    /\ RenderIdle

SpecParse == InitParse /\ [][Parse]_vars

----------------------------------------------------------------------------
(* The linearization alone, over every word sequence of the bounded set *)

\* the call stands before its linearization step with some results in hand
InitLin ==
    /\ fn \in Functions
    /\ pc = "linearize"
    /\ calls = <<"ffmpeg", "upload", "recognize">>
    /\ flacExists = TRUE
    /\ blobNamed = TRUE
    /\ gcs_uri = upload_to_gcs(TRUE, TRUE)
    /\ opDone = TRUE
    /\ answered = TRUE
    /\ \E w \in WordSeqs : results = <<[transcript |-> "hi there", words |-> w]>>
    /\ transcript = <<>>
    /\ text = <<>>
    /\ ret = NoReturn
    /\ raised = FALSE
    /\ MetaIdle
    /\ SessionFresh
    /\ participants = DEFAULT_PARTICIPANTS
    /\ gdrive_creds = FALSE
    /\ RenderIdle

SpecLin == InitLin /\ [][Linearize]_vars

----------------------------------------------------------------------------
(* Claims about the section parsing (checked under SpecParse) *)

\* the call has returned the dict of sections
HasSections == pc \in {"finally", "done"} /\ "discussion" \in DOMAIN ret

\* analyze_audio_gemini has returned its dict of four sections
HasFourSections == HasSections /\ fn = GEMINI

\* the number of positions at which m occurs in s
Count(s, m) == Cardinality({i \in 1..Len(s) : OccursAt(s, m, i)})

\* the first position at or after i at which any marker occurs, Len(s) + 1
\* when none does
NextMarkerFrom(s, i) ==
    LET at == {j \in i..Len(s) : \E m \in Markers : OccursAt(s, m, j)}
    IN IF at = {} THEN Len(s) + 1
       ELSE CHOOSE j \in at : \A k \in at : j <= k

\* the substring from the end of the first occurrence of m to the next marker
\* of any kind, or to the end of the text
SubstringAfter(s, m) ==
    LET start == Find(s, m) + Len(m)
    IN SubSeq(s, start, NextMarkerFrom(s, start) - 1)

\* each marker occurs exactly once, in the prompt's order, without overlap
CanonicalOnce(s) ==
    /\ \A m \in Markers : Contains(s, m)
    /\ Find(s, MARK_OVERVIEW) + Len(MARK_OVERVIEW) <= Find(s, MARK_DISCUSSION)
    /\ Find(s, MARK_DISCUSSION) + Len(MARK_DISCUSSION) <= Find(s, MARK_NEXT_STEPS)
    /\ Find(s, MARK_NEXT_STEPS) + Len(MARK_NEXT_STEPS)
           <= Find(s, MARK_CLIENT_REQUESTS)
    /\ \A m \in Markers : Count(s, m) = 1

\* s without its leading and trailing whitespace: from its first to its last
\* character that is not whitespace
Trimmed(s) ==
    LET solid == {i \in 1..Len(s) : s[i] \notin Whitespace}
    IN IF solid = {} THEN <<>>
       ELSE SubSeq(s, CHOOSE i \in solid : \A j \in solid : i <= j,
                      CHOOSE i \in solid : \A j \in solid : i >= j)

\* C2 as claimed: whenever the response lacks the DISCUSSION marker, the
\* returned discussion is the entire raw response.
C2_DiscussionFallback ==
    (HasSections /\ ~Contains(text, MARK_DISCUSSION)) => ret.discussion = text

\* C3 as claimed: whenever the response contains all four markers, each of the
\* four sections is exactly the substring between its marker and the next
\* marker (the end of the text for the last), nothing lost at the boundaries.
C3_ExactSubstrings ==
    (HasFourSections /\ \A m \in Markers : Contains(text, m)) =>
        /\ ret.overview = SubstringAfter(text, MARK_OVERVIEW)
        /\ ret.discussion = SubstringAfter(text, MARK_DISCUSSION)
        /\ ret.next_steps = SubstringAfter(text, MARK_NEXT_STEPS)
        /\ ret.client_reqs = SubstringAfter(text, MARK_CLIENT_REQUESTS)

\* C3 amended: when each of the four markers occurs exactly once, in the order
\* OVERVIEW, DISCUSSION, NEXT STEPS, CLIENT REQUESTS and without overlap, each
\* section is the substring between consecutive markers (the last running to
\* the end of the text) with its leading and trailing whitespace removed.
C3_TrimmedSubstrings ==
    (HasFourSections /\ CanonicalOnce(text)) =>
        /\ ret.overview = Trimmed(SubstringAfter(text, MARK_OVERVIEW))
        /\ ret.discussion = Trimmed(SubstringAfter(text, MARK_DISCUSSION))
        /\ ret.next_steps = Trimmed(SubstringAfter(text, MARK_NEXT_STEPS))
        /\ ret.client_reqs = Trimmed(SubstringAfter(text, MARK_CLIENT_REQUESTS))

\* a response with leading text and the four markers once each in order, whose
\* overview substring carries whitespace that the returned overview lacks
C3_Witness ==
    /\ HasFourSections
    /\ CanonicalOnce(text)
    /\ Find(text, MARK_OVERVIEW) > 1
    /\ ret.overview # <<>>
    /\ ret.overview # SubstringAfter(text, MARK_OVERVIEW)
    /\ ret.client_reqs # <<>>

\* C4: a response made of the four markers in the order OVERVIEW, DISCUSSION,
\* NEXT STEPS, CLIENT REQUESTS, each followed by a marker-free body, parses to
\* the four bodies, whitespace trimmed, under the keys overview, discussion,
\* next_steps, client_reqs.
C4_CanonicalResponse ==
    (HasFourSections /\ OccursAt(text, MARK_OVERVIEW, 1)) =>
        LET iD == Find(text, MARK_DISCUSSION)
            iN == Find(text, MARK_NEXT_STEPS)
            iC == Find(text, MARK_CLIENT_REQUESTS)
            a == SubSeq(text, Len(MARK_OVERVIEW) + 1, iD - 1)
            b == SubSeq(text, iD + Len(MARK_DISCUSSION), iN - 1)
            c == SubSeq(text, iN + Len(MARK_NEXT_STEPS), iC - 1)
            d == SubSeq(text, iC + Len(MARK_CLIENT_REQUESTS), Len(text))
        IN (/\ iD > 0 /\ iN > 0 /\ iC > 0
            /\ text = Canonical(a, b, c, d)
            /\ \A x \in {a, b, c, d} : \A m \in Markers : ~Contains(x, m))
           => ret = [overview |-> Trimmed(a), discussion |-> Trimmed(b),
                     next_steps |-> Trimmed(c), client_reqs |-> Trimmed(d),
                     full_transcript |-> transcript]

\* the response "OVERVIEW 1 DISCUSSION 2 NEXT STEPS 3 CLIENT REQUESTS 4" has
\* been parsed to overview 1, discussion 2, next_steps 3, client_reqs 4
C4_Witness ==
    /\ HasFourSections
    /\ text = Canonical(Body(1), Body(2), Body(3), Body(4))
    /\ ret.overview = <<"1">>
    /\ ret.discussion = <<"2">>
    /\ ret.next_steps = <<"3">>
    /\ ret.client_reqs = <<"4">>

\* the marker of a section other than discussion
MarkerOf(key) ==
    CASE key = "overview" -> MARK_OVERVIEW
      [] key = "next_steps" -> MARK_NEXT_STEPS
      [] key = "client_reqs" -> MARK_CLIENT_REQUESTS

\* C5: a returned section other than discussion whose marker is absent from
\* the response is the empty string.
C5_MissingMarkerEmpty ==
    HasSections =>
        \A key \in {"overview", "next_steps", "client_reqs"} \cap DOMAIN ret :
            ~Contains(text, MarkerOf(key)) => ret[key] = <<>>

\* a non-empty response with a DISCUSSION section and no OVERVIEW and no
\* NEXT STEPS marker, parsed by analyze_audio_gemini
C5_Witness ==
    /\ HasFourSections
    /\ ~Contains(text, MARK_OVERVIEW)
    /\ ~Contains(text, MARK_NEXT_STEPS)
    /\ ret.discussion # <<>>
    /\ ret.overview = <<>>
    /\ ret.next_steps = <<>>

----------------------------------------------------------------------------
(* Claims about the linearization (checked under SpecLin) *)

\* the words the loop scanned
ScannedWords == LastResult(results).words

\* the number of places where a word's tag differs from the previous word's
TagChanges(words) ==
    Cardinality({i \in 2..Len(words) :
                    words[i].speaker_tag # words[i - 1].speaker_tag})

\* the number of "Speaker N:" labels in a transcript
LabelCount(t) == Cardinality({i \in 1..Len(t) : t[i] \in Labels})

\* the loop has run over a word sequence with at least one tag change
LinearizedWithChange ==
    /\ pc = "generate"
    /\ results # <<>>
    /\ TagChanges(ScannedWords) >= 1

\* C6 as claimed: with at least one tag change, the transcript holds one more
\* label than the number of tag changes plus one.
C6_LabelsChangesPlusTwo ==
    LinearizedWithChange =>
        LabelCount(transcript) = (TagChanges(ScannedWords) + 1) + 1

\* C6 amended: with at least one tag change, the number of "Speaker N:" labels
\* equals the number of tag changes plus one, and the first label stands
\* before any word.
C6_LabelsChangesPlusOne ==
    LinearizedWithChange =>
        /\ LabelCount(transcript) = TagChanges(ScannedWords) + 1
        /\ transcript[1] \in Labels

\* three words under three different tags have been linearized to three labels
C6_Witness ==
    /\ LinearizedWithChange
    /\ TagChanges(ScannedWords) = 2
    /\ LabelCount(transcript) = 3
    /\ ScannedWords[1].speaker_tag = 0

----------------------------------------------------------------------------
(* Claims about the whole call (checked under Spec) *)

\* the try body has been left: the call's value is decided
BodyLeft == pc \in {"finally", "done"}

\* C1: whatever fails, the call returns either a dict with full_transcript and
\* no error key or a dict with the error key alone, and no exception leaves it.
C1_ResultOrError ==
    /\ ~raised
    /\ BodyLeft =>
         \/ "full_transcript" \in DOMAIN ret /\ "error" \notin DOMAIN ret
         \/ DOMAIN ret = {"error"}

\* a call whose generation step raised has returned the error dict, after a
\* call that got as far as asking the model
C1_Witness ==
    /\ pc = "done"
    /\ calls = <<"ffmpeg", "upload", "recognize", "generate", "delete">>
    /\ ret = ErrorDict("ValueError")

\* C7: once the recognition service has answered with an empty result set, the
\* call returns an error dict and never calls the generative model.
C7_EmptyResultsError ==
    (answered /\ results = <<>>) =>
        /\ "generate" \notin Range(calls)
        /\ pc \notin {"generate", "parse"}
        /\ BodyLeft => DOMAIN ret = {"error"}

\* analyze_audio_gemini has returned an error after an empty result set
C7_Witness ==
    /\ pc = "done"
    /\ fn = GEMINI
    /\ answered
    /\ results = <<>>
    /\ ret = ErrorDict("IndexError")

\* C8 as claimed: when the results are non-empty and the scanned word stream
\* is empty, the returned transcript is the plain transcripts of the results,
\* joined in result order, and holds no "Speaker N:" label.
C8_PlainTranscriptFallback ==
    (/\ BodyLeft
     /\ "full_transcript" \in DOMAIN ret
     /\ results # <<>>
     /\ ScannedWords = <<>>) =>
        /\ ret.full_transcript = JoinTranscripts(results)
        /\ LabelCount(ret.full_transcript) = 0

\* C9: when the upload has failed, the call is over with an error dict and
\* has started neither the recognition job nor the generative call.
C9_UploadFailureTerminal ==
    ("upload" \in Range(calls) /\ gcs_uri = "") =>
        /\ BodyLeft
        /\ DOMAIN ret = {"error"}
        /\ "recognize" \notin Range(calls)
        /\ "generate" \notin Range(calls)

\* a call whose conversion succeeded and whose upload failed has returned
C9_Witness ==
    /\ pc = "done"
    /\ flacExists
    /\ gcs_uri = ""
    /\ calls = <<"ffmpeg", "upload", "delete">>
    /\ DOMAIN ret = {"error"}

\* C10 as claimed: on every path the call ends with an attempt to delete the
\* uploaded object, and no exception leaves the call.
C10_DeleteAlwaysAttempted ==
    pc = "done" => (calls[Len(calls)] = "delete" /\ ~raised)

----------------------------------------------------------------------------
(* get_visual_metadata.  The revision of the file that defines                *)
(* get_structured_notes_google is the older one, the revision that defines    *)
(* analyze_audio_gemini the newer one; fn tells which revision runs.          *)

\* the older revision of the file runs
OldRevision == fn = GOOGLE

\* s with every token a replaced by b: s.replace(a, b) for a one-character a
Replace(s, a, b) == [i \in 1..Len(s) |-> IF s[i] = a THEN b ELSE s[i]]

\* the title result_data starts with
DEFAULT_TITLE == <<"Meeting_Minutes">>

\* result_data = {"datetime_sg": None, "duration": 0, "title": ..., "venue": ""}
\* (datetime_sg: <<>> is None, <<dt>> a timestamp)
DefaultMetadata ==
    [datetime_sg |-> <<>>, duration |-> 0, title |-> DEFAULT_TITLE, venue |-> <<>>]

\* Python's None as a returned value
NoneValue == [none |-> <<>>]

\* the string "None" the prompt asks for when a value is not found
NoneStr == <<"None">>

\* what ffprobe may print and exit with
ProbeAnswers ==
    {[exit |-> 0, stdout |-> <<"90", "\n">>],
     [exit |-> 0, stdout |-> <<"45", "\n">>],
     [exit |-> 0, stdout |-> <<"N/A", "\n">>],
     [exit |-> 1, stdout |-> <<>>]}

\* the strings float() accepts
IsFloat(s) == s \in {<<"90">>, <<"45">>}

\* float(s) for such a string
FloatOf(s) == IF s = <<"90">> THEN 90 ELSE 45

\* the keys the prompt asks for
MetaKeys == {"datetime", "title", "venue"}

\* the values the vision model may give a key
MetaValues(k) ==
    CASE k = "title" -> {NoneStr, <<>>, <<"Q1", " ", "A", "/", "B">>}
      [] k = "venue" -> {NoneStr, <<"Zoom">>}
      [] k = "datetime" -> {NoneStr, <<"soon">>, <<"2024-01-05 20:00">>}

\* the JSON objects the vision model may answer: any of the keys, each with
\* one of its values
MetaDicts ==
    {d \in UNION {[K -> UNION {MetaValues(k) : k \in MetaKeys}] :
                     K \in SUBSET MetaKeys} :
        \A k \in DOMAIN d : d[k] \in MetaValues(k)}

\* a response text that json.loads rejects
NotJson == [notjson |-> <<>>]

\* what the vision model may answer
VisionAnswers == MetaDicts \cup {NotJson}

\* the strings strptime(s, "%Y-%m-%d %H:%M") accepts
IsDateTime(s) == s = <<"2024-01-05 20:00">>

\* strptime(s, "%Y-%m-%d %H:%M").replace(tzinfo=utc) for such a string
Strptime(s) == [day |-> 5, hour |-> 20, minute |-> 0]

\* dt.astimezone(Asia/Singapore): eight hours ahead of UTC
ToSingapore(dt) ==
    [day |-> dt.day + (dt.hour + 8) \div 24, hour |-> (dt.hour + 8) % 24,
     minute |-> dt.minute]

\* data.get(k) is truthy: the key is there with a non-empty string
Truthy(data, k) == k \in DOMAIN data /\ data[k] # <<>>

\* the older revision's body of the inner try: each field is taken when it is
\* there, non-empty and not "None"; an exception (json.loads, strptime) ends
\* the body and keeps what was assigned before it
ApplyVisionOld(rd, data) ==
    IF data = NotJson THEN rd
    ELSE LET t == IF Truthy(data, "title") /\ data.title # NoneStr
                  THEN [rd EXCEPT !.title =
                           Replace(Replace(data.title, " ", "_"), "/", "-")]
                  ELSE rd
             v == IF Truthy(data, "venue") /\ data.venue # NoneStr
                  THEN [t EXCEPT !.venue = data.venue]
                  ELSE t
         IN IF Truthy(data, "datetime") /\ data.datetime # NoneStr
                /\ IsDateTime(data.datetime)
            THEN [v EXCEPT !.datetime_sg = <<ToSingapore(Strptime(data.datetime))>>]
            ELSE v

\* the newer revision's body of the inner try: each field is taken unless
\* data.get(k) is "None"; a missing key raises KeyError at data[k] and ends
\* the body, keeping what was assigned before it
ApplyVisionNew(rd, data) ==
    IF data = NotJson THEN rd
    ELSE IF "title" \notin DOMAIN data THEN rd
    ELSE LET t == IF data.title = NoneStr THEN rd
                  ELSE [rd EXCEPT !.title = Replace(data.title, " ", "_")]
         IN IF "venue" \notin DOMAIN data THEN t
            ELSE LET v == IF data.venue = NoneStr THEN t
                          ELSE [t EXCEPT !.venue = data.venue]
                 IN IF "datetime" \notin DOMAIN data THEN v
                    ELSE IF data.datetime = NoneStr THEN v
                    ELSE IF IsDateTime(data.datetime)
                    THEN [v EXCEPT !.datetime_sg =
                             <<ToSingapore(Strptime(data.datetime))>>]
                    ELSE v

\* `except Exception` (older) and the bare `except` (newer) around the body
CaughtByMetaExcept(e) == TRUE

\* an exception inside the outer try: swallowed, control goes to finally
MetaRaise(e) ==
    /\ mpc' = "finally"
    /\ mraised' = (mraised \/ ~CaughtByMetaExcept(e))

\* get_visual_metadata(path): None at once when ffmpeg is not installed,
\* else the defaults and on to the duration probe
MetaCall ==
    /\ mpc \in {"idle", "done"}
    /\ thumb' = FALSE
    /\ probe' = Pending
    /\ vision' = Pending
    /\ mcalls' = <<>>
    /\ mraised' = FALSE
    /\ \E ffmpegFound \in BOOLEAN :
         IF ffmpegFound
         THEN result_data' = DefaultMetadata /\ mpc' = "probe"
         ELSE result_data' = NoneValue /\ mpc' = "done"
    /\ UNCHANGED <<callVars, sessionVars, renderVars, distVars>>

\* ffprobe for the duration: taken when the exit code is 0 and the output is
\* a number.  Output that is no number is skipped by the older revision's
\* inner try and ends the newer revision's outer try; a missing ffprobe
\* raises in both.
Probe ==
    /\ mpc = "probe"
    /\ mcalls' = Append(mcalls, "ffprobe")
    /\ \/ \E a \in ProbeAnswers :
            /\ probe' = a
            /\ IF a.exit = 0 /\ IsFloat(Strip(a.stdout))
               THEN /\ result_data' =
                         [result_data EXCEPT !.duration = FloatOf(Strip(a.stdout))]
                    /\ mpc' = "frame"
                    /\ mraised' = mraised
               ELSE IF a.exit = 0 /\ ~OldRevision
               THEN /\ result_data' = result_data
                    /\ MetaRaise("ValueError")
               ELSE /\ result_data' = result_data
                    /\ mpc' = "frame"
                    /\ mraised' = mraised
       \/ /\ probe' = probe
          /\ result_data' = result_data
          /\ MetaRaise("FileNotFoundError")
    /\ UNCHANGED <<thumb, vision>>
    /\ UNCHANGED <<callVars, sessionVars, renderVars, distVars>>

\* ffmpeg for one frame, exit code ignored; the vision part runs only when
\* the thumbnail exists afterwards
Frame ==
    /\ mpc = "frame"
    /\ mcalls' = Append(mcalls, "ffmpeg")
    /\ \E written \in BOOLEAN :
         /\ thumb' = written
         /\ mpc' = IF written THEN "vision" ELSE "finally"
    /\ UNCHANGED <<result_data, probe, vision, mraised>>
    /\ UNCHANGED <<callVars, sessionVars, renderVars, distVars>>

\* generate_content on the thumbnail: an answer, or an exception
Vision ==
    /\ mpc = "vision"
    /\ mcalls' = Append(mcalls, "generate")
    /\ \/ \E a \in VisionAnswers :
            /\ vision' = a
            /\ mpc' = "json"
            /\ mraised' = mraised
       \/ /\ vision' = vision
          /\ MetaRaise("GoogleAPICallError")
    /\ UNCHANGED <<result_data, thumb, probe>>
    /\ UNCHANGED <<callVars, sessionVars, renderVars, distVars>>

\* the inner try: json.loads and the three fields
ParseJson ==
    /\ mpc = "json"
    /\ result_data' = IF OldRevision THEN ApplyVisionOld(result_data, vision)
                      ELSE ApplyVisionNew(result_data, vision)
    /\ mpc' = "finally"
    /\ UNCHANGED <<thumb, probe, vision, mcalls, mraised>>
    /\ UNCHANGED <<callVars, sessionVars, renderVars, distVars>>

\* finally: remove the thumbnail; then return result_data
MetaFinally ==
    /\ mpc = "finally"
    /\ thumb' = FALSE
    /\ mpc' = "done"
    /\ UNCHANGED <<result_data, probe, vision, mcalls, mraised>>
    /\ UNCHANGED <<callVars, sessionVars, renderVars, distVars>>

NextMeta ==
    \/ MetaCall
    \/ Probe
    \/ Frame
    \/ Vision
    \/ ParseJson
    \/ MetaFinally

\* either revision of the file, nothing run yet
InitMeta ==
    /\ fn \in Functions
    /\ CallIdle
    /\ MetaIdle
    /\ SessionFresh
    /\ participants = DEFAULT_PARTICIPANTS
    /\ gdrive_creds = FALSE
    /\ RenderIdle

SpecMeta == InitMeta /\ [][NextMeta]_vars

----------------------------------------------------------------------------
(* Claims about get_visual_metadata (checked under SpecMeta) *)

\* get_visual_metadata has returned
MetaReturned == mpc = "done"

\* ffprobe exited with 0 and printed a number
ProbedDuration == probe # Pending /\ probe.exit = 0 /\ IsFloat(Trimmed(probe.stdout))

\* ffprobe ran and gave no duration: a non-zero exit, or output that is no number
ProbeFailed == probe # Pending /\ ~ProbedDuration

\* the vision model answered with a JSON object
VisionParsed == vision # Pending /\ vision # NotJson

\* C11 as claimed: get_visual_metadata never raises and, whatever fails inside
\* it (ffmpeg missing, ffprobe failing, no frame, the vision call raising,
\* unparsable JSON), returns a metadata struct in which every field that was
\* not derived holds its default: no timestamp, duration 0, title
\* 'Meeting_Minutes', venue ''.
C11_DefaultsOnEveryFailure ==
    /\ ~mraised
    /\ MetaReturned =>
         /\ DOMAIN result_data = {"datetime_sg", "duration", "title", "venue"}
         /\ ~ProbedDuration => result_data.duration = 0
         /\ ~VisionParsed =>
              /\ result_data.datetime_sg = <<>>
              /\ result_data.title = <<"Meeting_Minutes">>
              /\ result_data.venue = <<>>

\* C12 as claimed: a vision call or JSON parse that fails leaves a probed
\* duration in the result, and a duration probe that fails (non-zero exit or
\* output that is no number) does not keep the function from going on to the
\* frame and, when the vision model answers all three fields, from returning
\* the title, venue and timestamp.
C12_PartialSuccessBothWays ==
    (MetaReturned /\ "duration" \in DOMAIN result_data) =>
        /\ ProbedDuration =>
             result_data.duration = (IF Trimmed(probe.stdout) = <<"90">> THEN 90 ELSE 45)
        /\ ProbeFailed =>
             /\ "ffmpeg" \in Range(mcalls)
             /\ (/\ VisionParsed
                 /\ DOMAIN vision = {"datetime", "title", "venue"}
                 /\ vision.title = <<"Q1", " ", "A", "/", "B">>
                 /\ vision.venue = <<"Zoom">>
                 /\ vision.datetime = <<"2024-01-05 20:00">>) =>
                    /\ result_data.title # <<"Meeting_Minutes">>
                    /\ result_data.venue = <<"Zoom">>
                    /\ result_data.datetime_sg # <<>>

----------------------------------------------------------------------------
(* The roster: the participants text and the lists derived from it *)

TAG_CLIENT == "(Client)"

TAG_IFOUNDRIES == "(iFoundries)"

\* t.split('\n')
Lines(t) == Split(t, <<"\n">>)

\* a test of the tag that every line passes
HasTagAlways(l, tag) == TRUE

\* `tag in l`
HasTag(l, tag) == Contains(l, <<tag>>)

\* l.replace(tag, "")
RemoveTag(l, tag) == SelectSeq(l, LAMBDA x : x # tag)

RECURSIVE Join(_, _)
\* sep.join(list)
Join(list, sep) ==
    IF list = <<>> THEN <<>>
    ELSE IF Len(list) = 1 THEN list[1]
    ELSE list[1] \o sep \o Join(Tail(list), sep)

\* [l for l in t.split('\n') if tag in l]
TaggedLines(t, tag) == SelectSeq(Lines(t), LAMBDA l : HasTag(l, tag))

\* [l.replace(tag, "").strip() for l in t.split('\n') if tag in l]
TaggedNames(t, tag) ==
    LET ls == TaggedLines(t, tag)
    IN [i \in 1..Len(ls) |-> Strip(RemoveTag(ls[i], tag))]

\* the lines a user may type: a client, an internal attendee, a name without
\* a tag, a tag in the wrong case, both tags around a name, an empty line
RosterLines ==
    {<<"Ann", " ", "(Client)">>,
     <<"Bob", " ", "(iFoundries)">>,
     <<"Cy">>,
     <<"Dee", " ", "(client)">>,
     <<" ", "(Client)", "Eve", "(iFoundries)">>,
     <<>>}

RECURSIVE RostersOf(_)
\* every text of exactly n lines
RostersOf(n) ==
    IF n = 1 THEN RosterLines
    ELSE {t \o <<"\n">> \o l : t \in RostersOf(n - 1), l \in RosterLines}

\* every text of at most MaxLines lines
Rosters == UNION {RostersOf(n) : n \in 1..MaxLines}

----------------------------------------------------------------------------
(* The handlers of the page: Analyze, Load, the chat turn, Clear Chat and     *)
(* Save Chat.  A handler runs when no chat turn is streaming.                 *)

\* what the analysis call may return to the Analyze handler
AnalysisReturns(f) ==
    {ErrorDict(IF f = GOOGLE THEN "Upload failed." ELSE "Upload failed"),
     IF f = GOOGLE
     THEN ParseNotesGoogle(Canonical(Body(1), Body(2), Body(3), Body(4)),
                           LinearizeWords(OneTurn[1].words))
     ELSE ParseAudioGemini(Canonical(Body(1), Body(2), Body(3), Body(4)),
                           LinearizeWords(OneTurn[1].words))}

\* save_data: the snapshot of an analysis (its date is left out)
Snapshot(f, r, roster, title) ==
    IF f = GOOGLE
    THEN [ai_results |-> r, participants |-> roster, detected_title |-> title]
    ELSE [ai_results |-> r, participants |-> roster, chat_history |-> <<>>]

\* a metadata in which the vision model found everything
FOUND_METADATA ==
    [datetime_sg |-> <<ToSingapore(Strptime(<<"2024-01-05 20:00">>))>>,
     duration |-> 90, title |-> <<"Q1">>, venue |-> <<"Zoom">>]

\* what get_visual_metadata may return to the Analyze handler
Metadatas == {NoneValue, DefaultMetadata, FOUND_METADATA}

\* the date of a timestamp, and the time range from it over a duration
DateOf(dt) == <<"Jan", ToString(dt.day)>>
TimeRange(dt, duration) == <<ToString(dt.hour), "+", ToString(duration)>>

\* the older handler: everything is taken from a metadata with a timestamp,
\* the title and the venue only when not empty; nothing otherwise
DetectOld(d, meta) ==
    IF meta # NoneValue /\ meta.datetime_sg # <<>>
    THEN [date |-> DateOf(meta.datetime_sg[1]),
          time |-> TimeRange(meta.datetime_sg[1], meta.duration),
          title |-> IF meta.title # <<>> THEN meta.title ELSE d.title,
          venue |-> IF meta.venue # <<>> THEN meta.venue ELSE d.venue]
    ELSE d

\* the newer handler: every field is set, from the metadata or to a default
DetectNew(d, meta) ==
    [date |-> IF meta.datetime_sg # <<>> THEN DateOf(meta.datetime_sg[1])
              ELSE <<"today">>,
     time |-> IF meta.datetime_sg # <<>> /\ meta.duration # 0
              THEN TimeRange(meta.datetime_sg[1], meta.duration)
              ELSE <<"Unknown">>,
     title |-> IF meta.title # <<>> THEN meta.title ELSE <<"Meeting">>,
     venue |-> meta.venue]

\* a save on every path with credentials
ShouldSaveAlways(r, creds) == creds

\* the else branch of `if "error" in res`, then `if gdrive_creds`
ShouldSave(r, creds) == "error" \notin DOMAIN r /\ creds

\* the Analyze button
Analyze ==
    /\ cpc = "idle"
    /\ \E uploaded \in BOOLEAN, meta \in Metadatas, saveOk \in BOOLEAN,
          r \in AnalysisReturns(fn) :
         LET \* the newer handler subscripts the metadata: None raises TypeError
             ran == uploaded /\ (OldRevision \/ meta # NoneValue)
             ok == ran /\ "error" \notin DOMAIN r
             \* the drive takes at most MaxSnapshots snapshots
             written == /\ ran
                        /\ ShouldSave(r, gdrive_creds)
                        /\ saveOk
                        /\ Len(drive) < MaxSnapshots
             early == uploaded /\ OldRevision
         IN \* an input the handler does not get to read is fixed
            /\ ~uploaded => (meta = NoneValue /\ "error" \in DOMAIN r)
            /\ saveOk => (uploaded /\ ShouldSave(r, gdrive_creds))
            /\ last' = "Analyze"
            \* NamedTemporaryFile(delete=False): the copy is never removed
            /\ tmp' = (tmp \/ uploaded)
            /\ detected' = IF ~uploaded THEN detected
                           ELSE IF OldRevision THEN DetectOld(detected, meta)
                           ELSE IF meta = NoneValue THEN detected
                           ELSE DetectNew(detected, meta)
            /\ uncaught' = (uploaded /\ ~ran)
            /\ res' = IF ran THEN r ELSE Pending
            /\ errors' = IF ran /\ ~ok THEN 1 ELSE 0
            /\ chat_history' = IF early THEN <<>> ELSE chat_history
            /\ saved_participants_input' =
                   IF early THEN participants ELSE saved_participants_input
            /\ auto_client_reps' =
                   IF early THEN Join(TaggedNames(participants, TAG_CLIENT), <<"\n">>)
                   ELSE auto_client_reps
            /\ auto_ifoundries_reps' =
                   IF early
                   THEN Join(TaggedNames(participants, TAG_IFOUNDRIES), <<",", " ">>)
                   ELSE auto_ifoundries_reps
            /\ saved_participants' =
                   IF ran /\ ~OldRevision THEN participants ELSE saved_participants
            /\ ai_results' = IF ok THEN r ELSE ai_results
            /\ drive' = IF written
                        THEN Append(drive, Snapshot(fn, r, participants,
                                                    detected'.title))
                        ELSE drive
            /\ saves' = IF written THEN 1 ELSE 0
            /\ crep' = IF ok /\ ~OldRevision
                       THEN Join(TaggedLines(participants, TAG_CLIENT), <<"\n">>)
                       ELSE crep
            /\ irep' = IF ok /\ ~OldRevision
                       THEN Join(TaggedLines(participants, TAG_IFOUNDRIES), <<"\n">>)
                       ELSE irep
    /\ UNCHANGED <<participants, gdrive_creds, chatLogged, cpc, fragments>>
    /\ UNCHANGED <<callVars, metaVars, renderVars, distVars>>

\* a run of the script without the Analyze button: no `res`, no save
NoAnalysis == res' = Pending /\ saves' = 0

\* the chat history Load puts into the session: none in the older revision,
\* data.get("chat_history", []) in the newer
LoadedChat(data) ==
    IF OldRevision THEN <<>>
    ELSE IF "chat_history" \in DOMAIN data THEN data.chat_history ELSE <<>>

\* the Load button on a snapshot of the list; load_meeting_data returns the
\* snapshot, or None when the download fails
Load ==
    /\ cpc = "idle"
    /\ gdrive_creds
    /\ drive # <<>>
    /\ \E i \in 1..Len(drive), loaded \in BOOLEAN :
         LET data == drive[i]
         IN IF loaded
            THEN /\ ai_results' = data.ai_results
                 /\ saved_participants_input' = data.participants
                 /\ chat_history' = LoadedChat(data)
                 /\ auto_client_reps' =
                        Join(TaggedNames(data.participants, TAG_CLIENT), <<"\n">>)
                 /\ auto_ifoundries_reps' =
                        Join(TaggedNames(data.participants, TAG_IFOUNDRIES),
                             <<",", " ">>)
                 /\ detected' = IF OldRevision /\ "detected_title" \in DOMAIN data
                                THEN [detected EXCEPT !.title = data.detected_title]
                                ELSE detected
                 /\ last' = "Load"
            ELSE /\ UNCHANGED <<ai_results, saved_participants_input,
                                chat_history, auto_client_reps,
                                auto_ifoundries_reps, detected>>
                 /\ last' = "Load failed"
    /\ NoAnalysis
    /\ errors' = 0
    /\ uncaught' = FALSE
    /\ UNCHANGED <<tmp, participants, saved_participants, crep, irep, gdrive_creds,
                   drive, chatLogged, cpc, fragments>>
    /\ UNCHANGED <<callVars, metaVars, renderVars, distVars>>

\* ai_results.get("full_transcript", "")
TranscriptContext ==
    IF "full_transcript" \in DOMAIN ai_results THEN ai_results.full_transcript
    ELSE <<>>

\* the roster the chat prompt gives as context: saved_participants_input in
\* the older revision, saved_participants in the newer
ParticipantsContext ==
    IF OldRevision THEN saved_participants_input ELSE saved_participants

\* the older revision shows the chat only once a transcript is there
ChatShown == OldRevision => TranscriptContext # <<>>

\* the questions a user may ask
Prompts == {<<"who", "?">>}

\* the texts of the chunks the model may stream; <<>> is a chunk without text
ChunkTexts == {<<>>, <<"Yes">>, <<" ", "no">>}

\* a history that holds the new message only
OnlyMessage(history, m) == <<m>>

\* chat_history.append(m)
AppendMessage(history, m) == Append(history, m)

\* the last fragment in place of the whole answer
LastFragment(frags) == IF frags = <<>> THEN <<>> ELSE frags[Len(frags)]

RECURSIVE WriteStream(_)
\* what st.write_stream returns: the fragments it rendered, concatenated
WriteStream(frags) ==
    IF frags = <<>> THEN <<>> ELSE Head(frags) \o WriteStream(Tail(frags))

\* st.chat_input: the question is appended to the history, then the
\* generative call is started
ChatInput ==
    /\ cpc = "idle"
    /\ ChatShown
    /\ Len(chat_history) + 2 <= MaxHistory
    /\ \E p \in Prompts :
         chat_history' = AppendMessage(chat_history, [role |-> "user", content |-> p])
    /\ cpc' = "streaming"
    /\ fragments' = <<>>
    /\ NoAnalysis
    /\ last' = "Chat"
    /\ errors' = 0
    /\ uncaught' = FALSE
    /\ UNCHANGED <<tmp, detected, participants, ai_results, saved_participants_input,
                   saved_participants, auto_client_reps, auto_ifoundries_reps,
                   crep, irep, gdrive_creds, drive, chatLogged>>
    /\ UNCHANGED <<callVars, metaVars, renderVars, distVars>>

\* a chunk arrives: its text is yielded and rendered, a chunk without text is
\* skipped
StreamChunk ==
    /\ cpc = "streaming"
    /\ Len(fragments) < MaxChunks
    /\ \E c \in ChunkTexts :
         fragments' = IF c # <<>> THEN Append(fragments, c) ELSE fragments
    /\ UNCHANGED <<tmp, detected, participants, chat_history, ai_results,
                   saved_participants_input, saved_participants,
                   auto_client_reps, auto_ifoundries_reps, crep, irep,
                   gdrive_creds, drive, chatLogged, res, saves, cpc,
                   last, errors, uncaught>>
    /\ UNCHANGED <<callVars, metaVars, renderVars, distVars>>

\* generate_content or the stream raises: the older revision shows one error
\* box, the newer has no try around the turn and the exception leaves it
StreamFail ==
    /\ cpc = "streaming"
    /\ cpc' = "idle"
    /\ last' = "Chat failed"
    /\ errors' = IF OldRevision THEN 1 ELSE 0
    /\ uncaught' = ~OldRevision
    /\ UNCHANGED <<tmp, detected, participants, chat_history, ai_results,
                   saved_participants_input, saved_participants,
                   auto_client_reps, auto_ifoundries_reps, crep, irep,
                   gdrive_creds, drive, chatLogged, res, saves, fragments>>
    /\ UNCHANGED <<callVars, metaVars, renderVars, distVars>>

\* the stream is exhausted: st.write_stream returns and the answer is appended
StreamEnd ==
    /\ cpc = "streaming"
    /\ chat_history' = AppendMessage(chat_history,
                           [role |-> "assistant", content |-> WriteStream(fragments)])
    /\ cpc' = "idle"
    /\ last' = "Chat answered"
    /\ UNCHANGED <<tmp, detected, participants, ai_results, saved_participants_input,
                   saved_participants, auto_client_reps, auto_ifoundries_reps,
                   crep, irep, gdrive_creds, drive, chatLogged, res,
                   saves, fragments, errors, uncaught>>
    /\ UNCHANGED <<callVars, metaVars, renderVars, distVars>>

\* the Clear Chat button of the older revision
ClearChat ==
    /\ cpc = "idle"
    /\ OldRevision
    /\ TranscriptContext # <<>>
    /\ chat_history' = <<>>
    /\ NoAnalysis
    /\ last' = "Clear Chat"
    /\ errors' = 0
    /\ uncaught' = FALSE
    /\ UNCHANGED <<tmp, detected, participants, ai_results, saved_participants_input,
                   saved_participants, auto_client_reps, auto_ifoundries_reps,
                   crep, irep, gdrive_creds, drive, chatLogged,
                   cpc, fragments>>
    /\ UNCHANGED <<callVars, metaVars, renderVars, distVars>>

\* the Save Chat button: the chat log goes to the Chats folder as a document.
\* The older revision refuses without credentials or without messages and
\* shows an error when the upload fails; the newer always reports success.
SaveChat ==
    /\ cpc = "idle"
    /\ \E uploadOk \in BOOLEAN :
         LET stored == /\ gdrive_creds
                       /\ uploadOk
                       /\ OldRevision => chat_history # <<>>
         IN /\ chatLogged' = (chatLogged \/ stored)
            /\ errors' = IF OldRevision /\ ~stored
                            /\ (~gdrive_creds \/ chat_history # <<>>)
                         THEN 1 ELSE 0
    /\ NoAnalysis
    /\ last' = "Save Chat"
    /\ uncaught' = FALSE
    /\ UNCHANGED <<tmp, detected, participants, chat_history, ai_results,
                   saved_participants_input, saved_participants,
                   auto_client_reps, auto_ifoundries_reps, crep, irep,
                   gdrive_creds, drive, cpc, fragments>>
    /\ UNCHANGED <<callVars, metaVars, renderVars, distVars>>

NextSession ==
    \/ Analyze
    \/ Load
    \/ ChatInput
    \/ StreamChunk
    \/ StreamFail
    \/ StreamEnd
    \/ ClearChat
    \/ SaveChat

\* a fresh session of either revision, logged in to the drive or not
InitSession ==
    /\ fn \in Functions
    /\ CallIdle
    /\ MetaIdle
    /\ SessionFresh
    /\ participants = DEFAULT_PARTICIPANTS
    /\ gdrive_creds \in BOOLEAN
    /\ RenderIdle

SpecSession == InitSession /\ [][NextSession]_vars

\* a fresh session, logged in to the drive, with some roster typed into the
\* text area
InitRoster ==
    /\ fn \in Functions
    /\ CallIdle
    /\ MetaIdle
    /\ SessionFresh
    /\ participants \in Rosters
    /\ gdrive_creds = TRUE
    /\ RenderIdle

NextRoster ==
    \/ Analyze
    \/ Load

SpecRoster == InitRoster /\ [][NextRoster]_vars

\* the rosters a user may type in a session that follows its history
HistoryRosters == {DEFAULT_PARTICIPANTS, <<"Ann", " ", "(Client)">>}

\* the user replaces the text of the participants text area: the script runs
\* again without a button
EditRoster ==
    /\ cpc = "idle"
    /\ participants' \in HistoryRosters \ {participants}
    /\ NoAnalysis
    /\ last' = "Edit"
    /\ errors' = 0
    /\ uncaught' = FALSE
    /\ UNCHANGED <<tmp, detected, chat_history, ai_results,
                   saved_participants_input, saved_participants,
                   auto_client_reps, auto_ifoundries_reps, crep, irep,
                   gdrive_creds, drive, chatLogged, cpc, fragments>>
    /\ UNCHANGED <<callVars, metaVars, renderVars, distVars>>

\* a fresh session, logged in to the drive, in which meetings are analysed
\* under changing rosters, loaded from the history and asked about
InitHistory ==
    /\ fn \in Functions
    /\ CallIdle
    /\ MetaIdle
    /\ SessionFresh
    /\ participants \in HistoryRosters
    /\ gdrive_creds = TRUE
    /\ RenderIdle

NextHistory ==
    \/ Analyze
    \/ EditRoster
    \/ Load
    \/ ChatInput

SpecHistory == InitHistory /\ [][NextHistory]_vars

----------------------------------------------------------------------------
(* Claims about the chat turn and the history (checked under SpecSession) *)

\* a is a prefix of b
IsPrefix(a, b) == Len(a) <= Len(b) /\ SubSeq(b, 1, Len(a)) = a

\* s without its last element
Front(s) == SubSeq(s, 1, Len(s) - 1)

\* the fragments of a turn, one after the other
Flatten(frags) ==
    LET F[i \in 0..Len(frags)] == IF i = 0 THEN <<>> ELSE F[i - 1] \o frags[i]
    IN F[Len(frags)]

\* the number of assistant messages in a history
Answers(h) == Cardinality({i \in 1..Len(h) : h[i].role = "assistant"})

\* C13 as claimed: when the generative call fails during a chat turn (at its
\* start or in mid-stream), the history after the turn is the history before
\* the turn, the question included in no way, and the failure is shown as one
\* error state.  (While a turn streams, the history before the turn is the
\* history without its last entry.)
C13_NothingAppendedOnFailure ==
    [][(cpc = "streaming" /\ last' = "Chat failed") =>
          /\ chat_history' = Front(chat_history)
          /\ errors' = 1
          /\ ~uncaught']_vars

\* C14: in a chat turn that succeeds, nothing is written to the history while
\* fragments arrive, and the assistant message is appended once, when the
\* stream is exhausted, with the in-order concatenation of all fragments as
\* its content; the number of assistant messages grows at no other step.
C14_AnswerAppendedAfterStream ==
    [][/\ (cpc = "streaming" /\ cpc' = "streaming") => chat_history' = chat_history
       /\ (cpc = "streaming" /\ last' = "Chat answered") =>
             chat_history' = chat_history \o
                 <<[role |-> "assistant", content |-> Flatten(fragments)]>>
       /\ Answers(chat_history') > Answers(chat_history) =>
             /\ cpc = "streaming"
             /\ last' = "Chat answered"
             /\ Answers(chat_history') = Answers(chat_history) + 1]_vars

\* a turn has been answered from two different fragments, in their order
C14_Witness ==
    /\ last = "Chat answered"
    /\ fragments = <<<<"Yes">>, <<" ", "no">>>>
    /\ chat_history[Len(chat_history)] =
           [role |-> "assistant", content |-> <<"Yes", " ", "no">>]
    /\ chat_history[Len(chat_history) - 1].role = "user"

\* C15 as claimed: at every step, whichever handler runs, the previous chat
\* history is a prefix of the next one.
C15_AppendOnly == [][IsPrefix(chat_history, chat_history')]_vars

\* C15 amended: at every step the previous chat history is a prefix of the
\* next one, except that Clear Chat and the older revision's Analyze reset it
\* to empty and Load replaces it by the chat history of the loaded snapshot
\* (none in the older revision).
C15_AppendOrReplace ==
    [][\/ IsPrefix(chat_history, chat_history')
       \/ last' = "Clear Chat" /\ chat_history' = <<>>
       \/ last' = "Analyze" /\ OldRevision /\ chat_history' = <<>>
       \/ /\ last' = "Load"
          /\ \E i \in 1..Len(drive) :
               chat_history' = IF "chat_history" \in DOMAIN drive[i] /\ ~OldRevision
                               THEN drive[i].chat_history ELSE <<>>]_vars

\* an answered turn has been logged to the drive and then cleared
C15_Witness ==
    /\ last = "Clear Chat"
    /\ chat_history = <<>>
    /\ chatLogged
    /\ TranscriptContext # <<>>

\* C16: the drive's snapshots change only by an Analyze whose analysis
\* returned no error, which adds one snapshot, that of its result; an Analyze
\* whose analysis returned an error writes nothing.
C16_SnapshotOnlyAfterSuccess ==
    [][/\ drive' # drive =>
             /\ last' = "Analyze"
             /\ res' # Pending
             /\ "error" \notin DOMAIN res'
             /\ Len(drive') = Len(drive) + 1
             /\ IsPrefix(drive, drive')
             /\ drive'[Len(drive')].ai_results = res'
       /\ (last' = "Analyze" /\ "error" \in DOMAIN res') =>
             drive' = drive /\ saves' = 0
       /\ saves' <= 1]_vars

\* an Analyze whose analysis succeeded has written its one snapshot
C16_Witness ==
    /\ last = "Analyze"
    /\ "full_transcript" \in DOMAIN res
    /\ saves = 1
    /\ drive # <<>>
    /\ drive[Len(drive)].ai_results = res

\* C17 as claimed: when a session that holds an analysis and has just had a
\* chat turn answered loads the snapshot of that same analysis, the chat
\* history after the Load is the chat history before it: the messages of the
\* turns come back.
C17_ChatRestoredOnLoad ==
    [][(/\ last = "Chat answered"
        /\ last' = "Load"
        /\ TranscriptContext # <<>>
        /\ ai_results' = ai_results) =>
          chat_history' = chat_history]_vars

----------------------------------------------------------------------------
(* Claims about the roster parsing (checked under SpecRoster) *)

\* the lines of ls that hold the token tag, in their order
Picked(ls, tag) == SelectSeq(ls, LAMBDA l : \E k \in 1..Len(l) : l[k] = tag)

\* each line without the tag and without the whitespace around it
Names(ls, tag) ==
    [i \in 1..Len(ls) |-> Trimmed(SelectSeq(ls[i], LAMBDA x : x # tag))]

\* the older Analyze handler has parsed the roster in the text area
OldAnalyzeParsed == last = "Analyze" /\ OldRevision /\ res # Pending

\* the newer Analyze handler has parsed the roster in the text area
NewAnalyzeParsed ==
    last = "Analyze" /\ ~OldRevision /\ "full_transcript" \in DOMAIN res

\* Load has put a snapshot's roster into the session
LoadParsed ==
    /\ last = "Load"
    /\ \E i \in 1..Len(drive) : saved_participants_input = drive[i].participants

\* C18 as claimed: wherever a roster is parsed (Analyze, Load), the client
\* list is exactly the lines containing '(Client)' and the internal list
\* exactly the lines containing '(iFoundries)', in roster order, and the raw
\* roster kept in the session is the input unchanged.
C18_ListsAreTaggedLines ==
    /\ OldAnalyzeParsed =>
         /\ saved_participants_input = participants
         /\ auto_client_reps = Join(Picked(Lines(participants), "(Client)"), <<"\n">>)
         /\ auto_ifoundries_reps =
                Join(Picked(Lines(participants), "(iFoundries)"), <<",", " ">>)
    /\ NewAnalyzeParsed =>
         /\ saved_participants = participants
         /\ crep = Join(Picked(Lines(participants), "(Client)"), <<"\n">>)
         /\ irep = Join(Picked(Lines(participants), "(iFoundries)"), <<"\n">>)
    /\ LoadParsed =>
         /\ auto_client_reps =
                Join(Picked(Lines(saved_participants_input), "(Client)"), <<"\n">>)
         /\ auto_ifoundries_reps =
                Join(Picked(Lines(saved_participants_input), "(iFoundries)"),
                     <<",", " ">>)

\* C18 amended: each derived list has one entry per roster line containing
\* its tag ('(Client)' for the client list, '(iFoundries)' for the internal
\* list), in roster order; the entry is the line itself in the newer Analyze
\* handler, and the line with that tag removed and the whitespace around it
\* stripped in the older Analyze handler and in Load; a line carrying neither
\* tag gives no entry, and the raw roster kept in the session is the parsed
\* text unchanged.
C18_ListsFollowTaggedLines ==
    /\ OldAnalyzeParsed =>
         /\ saved_participants_input = participants
         /\ auto_client_reps =
                Join(Names(Picked(Lines(participants), "(Client)"), "(Client)"),
                     <<"\n">>)
         /\ auto_ifoundries_reps =
                Join(Names(Picked(Lines(participants), "(iFoundries)"),
                           "(iFoundries)"), <<",", " ">>)
    /\ NewAnalyzeParsed =>
         /\ saved_participants = participants
         /\ crep = Join(Picked(Lines(participants), "(Client)"), <<"\n">>)
         /\ irep = Join(Picked(Lines(participants), "(iFoundries)"), <<"\n">>)
    /\ LoadParsed =>
         /\ auto_client_reps =
                Join(Names(Picked(Lines(saved_participants_input), "(Client)"),
                           "(Client)"), <<"\n">>)
         /\ auto_ifoundries_reps =
                Join(Names(Picked(Lines(saved_participants_input), "(iFoundries)"),
                           "(iFoundries)"), <<",", " ">>)

\* a snapshot whose roster holds a client line and a line with a tag in the
\* wrong case has been loaded: one client, no internal attendee
C18_Witness ==
    /\ LoadParsed
    /\ saved_participants_input =
           <<"Ann", " ", "(Client)", "\n", "Dee", " ", "(client)">>
    /\ auto_client_reps = <<"Ann">>
    /\ auto_ifoundries_reps = <<>>

----------------------------------------------------------------------------
(* Rendering into the Word document: _add_rich_text, add_formatted_text,      *)
(* add_markdown_to_doc and _render_word_table.                                *)
(* A text is a sequence of tokens: "*", "-", "#", "|", ":" and the bullet     *)
(* sign are those characters, " " and "\n" whitespace, any other token a run  *)
(* of ordinary characters.  The document is the sequence of its elements: a   *)
(* paragraph is a record with a style and runs, a table a record with rows,   *)
(* each row the sequence of its cells and each cell the runs of its first     *)
(* paragraph.                                                                 *)

STARS == <<"*", "*">>

\* s.startswith(m)
StartsWith(s, m) == OccursAt(s, m, 1)

\* s.endswith(m)
EndsWith(s, m) == OccursAt(s, m, Len(s) - Len(m) + 1)

RECURSIVE LStripChars(_, _)
\* s.lstrip(chars)
LStripChars(s, chars) ==
    IF s # <<>> /\ Head(s) \in chars THEN LStripChars(Tail(s), chars) ELSE s

RECURSIVE MatchFrom(_, _)
\* the leftmost match of \*\*.*?\*\* in s at or after position i, as the pair
\* of its first and last position; <<0, 0>> when there is none.  A match
\* starts at a "**" that a later, disjoint "**" follows, and ends with the
\* nearest such "**".
MatchFrom(s, i) ==
    IF i + 3 > Len(s) THEN <<0, 0>>
    ELSE IF OccursAt(s, STARS, i) /\ FindFrom(s, STARS, i + 2) # 0
    THEN <<i, FindFrom(s, STARS, i + 2) + 1>>
    ELSE MatchFrom(s, i + 1)

RECURSIVE RichSplit(_)
\* re.split(r'(\*\*.*?\*\*)', s): the text before the first match, the
\* match, and so on with the rest; always an odd number of parts
RichSplit(s) ==
    LET m == MatchFrom(s, 1) IN
    IF m[1] = 0 THEN <<s>>
    ELSE <<SubSeq(s, 1, m[1] - 1), SubSeq(s, m[1], m[2])>>
             \o RichSplit(SubSeq(s, m[2] + 1, Len(s)))

\* paragraph.add_run(t), with run.bold and run.underline as given
Run(t, bold, underline) == [text |-> t, bold |-> bold, underline |-> underline]

\* the run _add_rich_text adds for one part: bold and without its first and
\* last two characters (part[2:-2]) when the part starts and ends with "**",
\* the part as it is otherwise
RichRun(part) ==
    IF StartsWith(part, STARS) /\ EndsWith(part, STARS)
    THEN Run(SubSeq(part, 3, Len(part) - 2), TRUE, FALSE)
    ELSE Run(part, FALSE, FALSE)

\* the runs _add_rich_text adds to the paragraph: one per part, empty parts
\* included
RichRuns(t) ==
    LET parts == RichSplit(t) IN [k \in 1..Len(parts) |-> RichRun(parts[k])]

\* the paragraph add_formatted_text adds for one stripped, non-empty line
FormattedParagraph(line) ==
    IF StartsWith(line, <<"#", "#">>)
    THEN [style |-> "Normal",
          runs |-> <<Run(Strip(LStripChars(line, {"#"})), TRUE, TRUE)>>]
    ELSE IF StartsWith(line, <<"*">>) \/ StartsWith(line, <<"-">>)
    THEN [style |-> "List Bullet",
          runs |-> RichRuns(Strip(LStripChars(line, {"*", "-", " "})))]
    ELSE [style |-> "Normal", runs |-> RichRuns(line)]

RECURSIVE FormattedParagraphs(_)
\* the loop of add_formatted_text over the lines: each line stripped, empty
\* lines skipped
FormattedParagraphs(lines) ==
    IF lines = <<>> THEN <<>>
    ELSE (IF Strip(Head(lines)) = <<>> THEN <<>>
          ELSE <<FormattedParagraph(Strip(Head(lines)))>>)
             \o FormattedParagraphs(Tail(lines))

RECURSIVE RStripChars(_, _)
\* s.rstrip(chars)
RStripChars(s, chars) ==
    IF s # <<>> /\ s[Len(s)] \in chars
    THEN RStripChars(SubSeq(s, 1, Len(s) - 1), chars) ELSE s

\* the text of a manual bullet, the bullet sign and a tab
BULLET == <<"<bullet>", "\t">>

\* the literal ':**' that ends a label
LABEL_END == <<":", "*", "*">>

\* the runs of a bullet of the older add_formatted_text whose text starts
\* with "**" and holds ':**': the bullet sign, the label in bold with ": "
\* after it, and the rest
LabelRuns(clean) ==
    LET i == Find(clean, LABEL_END)
        label == SubSeq(clean, 1, i - 1)
        value == SubSeq(clean, i + 3, Len(clean))
    IN <<Run(BULLET, FALSE, FALSE),
         Run(Strip(LStripChars(label, {"*"})) \o <<":", " ">>, TRUE, FALSE),
         Run(Strip(value), FALSE, FALSE)>>

\* the paragraph the older add_formatted_text adds for one stripped,
\* non-empty line
SimpleParagraph(line) ==
    IF StartsWith(line, <<"#", "#">>)
    THEN [style |-> "Normal",
          runs |-> <<Run(Strip(RStripChars(LStripChars(line, {"#"}), {"#"})),
                         FALSE, TRUE)>>]
    ELSE IF StartsWith(line, <<"*">>)
    THEN LET clean == Strip(LStripChars(LStripChars(line, {"*"}), {"<bullet>"}))
         IN [style |-> "Normal",
             runs |-> IF StartsWith(clean, STARS) /\ Contains(clean, LABEL_END)
                      THEN LabelRuns(clean)
                      ELSE <<Run(BULLET \o clean, FALSE, FALSE)>>]
    ELSE [style |-> "Normal", runs |-> <<Run(line, FALSE, FALSE)>>]

RECURSIVE SimpleParagraphs(_)
\* the loop of the older add_formatted_text over the lines
SimpleParagraphs(lines) ==
    IF lines = <<>> THEN <<>>
    ELSE (IF Strip(Head(lines)) = <<>> THEN <<>>
          ELSE <<SimpleParagraph(Strip(Head(lines)))>>)
             \o SimpleParagraphs(Tail(lines))

\* table_row_pattern, ^\|(.+)\|, matches at the start of the line: a "|", at
\* least one character, and a later "|"
IsTableRow(line) ==
    /\ StartsWith(line, <<"|">>)
    /\ \E k \in 3..Len(line) : line[k] = "|"

\* table_sep_pattern, ^\|[-:| ]+\|, matches at the start of the line: a "|",
\* one or more of "-", ":", "|" and the blank, and a "|"
IsTableSep(line) ==
    /\ StartsWith(line, <<"|">>)
    /\ \E k \in 3..Len(line) :
          /\ line[k] = "|"
          /\ \A j \in 2..(k - 1) : line[j] \in {"-", ":", "|", " "}

\* the cells of a table line: the texts between its "|", each stripped
Cells(line) ==
    LET parts == Split(line, <<"|">>)
    IN [k \in 1..(Len(parts) - 2) |-> Strip(parts[k + 1])]

RECURSIVE TableRun(_)
\* the number of lines at the head of lines that are table lines
TableRun(lines) ==
    IF lines # <<>> /\ IsTableRow(Strip(Head(lines)))
    THEN 1 + TableRun(Tail(lines)) ELSE 0

\* table_data of a run of table lines: the cells of every line of the run
\* that is not a separator line
TableData(run) ==
    LET rows == SelectSeq(run, LAMBDA l : ~IsTableSep(Strip(l)))
    IN [k \in 1..Len(rows) |-> Cells(Strip(rows[k]))]

\* every run of the header row is bold, whatever the row
CellRunsAllBold(first, t) == <<Run(t, TRUE, FALSE)>>

\* the runs _render_word_table puts in a cell: in the older revision one run
\* with the text, bold in the first row; in the newer one the runs of
\* _add_rich_text, all of them set bold in the first row
CellRuns(first, t) ==
    IF OldRevision THEN <<Run(t, first, FALSE)>>
    ELSE [k \in 1..Len(RichRuns(t)) |->
             [RichRuns(t)[k] EXCEPT !.bold = first \/ @]]

\* _render_word_table(doc, rows): nothing for no rows; otherwise a table with
\* a row per row of data and the columns of the first row, texts beyond the
\* row's cells dropped, and an empty paragraph after it
RenderWordTable(rows) ==
    IF rows = <<>> THEN <<>>
    ELSE <<[rows |-> [i \in 1..Len(rows) |->
                        [j \in 1..Len(rows[1]) |->
                            IF j <= Len(rows[i])
                            THEN CellRuns(i = 1, rows[i][j]) ELSE <<>>]]],
           [style |-> "Normal", runs |-> <<>>]>>

\* the runs of a bullet of add_markdown_to_doc
BulletRuns(clean_text) == RichRuns(clean_text)

\* the element add_markdown_to_doc adds for one stripped, non-empty line that
\* is not part of a table: doc.add_heading gives a paragraph with the text as
\* its one run (none for an empty text)
MarkdownElement(stripped) ==
    IF StartsWith(stripped, <<"#", "#">>)
    THEN LET t == Strip(LStripChars(stripped, {"#"}))
         IN [style |-> "Heading 2",
             runs |-> IF t = <<>> THEN <<>> ELSE <<Run(t, FALSE, FALSE)>>]
    ELSE IF StartsWith(stripped, <<"*">>) \/ StartsWith(stripped, <<"-">>)
    THEN [style |-> "List Bullet",
          runs |-> BulletRuns(Strip(LStripChars(stripped, {"*", "-", " "})))]
    ELSE [style |-> "Normal", runs |-> RichRuns(stripped)]

RECURSIVE MarkdownElements(_)
\* the loop of add_markdown_to_doc over the lines: a run of consecutive table
\* lines that holds a separator line is rendered as one table when it ends
\* (at the end of the text too); blank lines are skipped; every other line
\* gives one element
MarkdownElements(lines) ==
    IF lines = <<>> THEN <<>>
    ELSE LET n == TableRun(lines)
             run == SubSeq(lines, 1, n)
         IN IF n > 0 /\ \E k \in 1..n : IsTableSep(Strip(run[k]))
            THEN RenderWordTable(TableData(run))
                     \o MarkdownElements(SubSeq(lines, n + 1, Len(lines)))
            ELSE (IF Strip(Head(lines)) = <<>> THEN <<>>
                  ELSE <<MarkdownElement(Strip(Head(lines)))>>)
                     \o MarkdownElements(Tail(lines))

\* the three lines `|A|B|`, `|-|-|`, `|1|2|`
TABLE_AB ==
    <<"|", "A", "|", "B", "|", "\n",
      "|", "-", "|", "-", "|", "\n",
      "|", "1", "|", "2", "|">>

\* the line `**bold** plain`
BOLD_PLAIN == <<"*", "*", "bold", "*", "*", " ", "plain">>

\* the texts handed to the renderers: every text of at most MaxBody tokens
\* over an asterisk, a word and a blank, and some longer ones
Bodies ==
    SeqUpTo({"*", "a", " "}, MaxBody)
        \cup {BOLD_PLAIN,
              <<"x", " ">> \o BOLD_PLAIN,
              <<"#", "#", " ", "Title", "\n", "-", " ", "item", "\n", "\n">> \o BOLD_PLAIN,
              <<"*", "*", "a", "*", "*", "*", "*">>,
              <<"a", "*", "*", "b", "*", "*", "c", "*", "*", "d">>,
              TABLE_AB,
              <<"intro", "\n">> \o TABLE_AB \o <<"\n", "\n", "after">>,
              <<"|", " ", "*", "*", "x", "*", "*", " ", "|", "\n",
                "|", ":", "-", "|", "\n",
                "|", "*", "*", "y", "*", "*", "|", "z", "|">>,
              <<"|", "a", "|", "b", "|">>,
              <<"#", "#", " ", "*", "*", "x", "*", "*">>,
              <<"-", " ", "*", "*", "x", "*", "*", " ", "y">>,
              <<"see", " ", "*", "*", "x", "*", "*">>,
              <<"*", " ", "*", "*", "Owner", ":", "*", "*", " ", "Ann">>}

\* _add_rich_text(paragraph, body) on a new paragraph
AddRichText ==
    /\ rpc = "idle"
    /\ rpc' = "_add_rich_text"
    /\ paragraphs' = <<[style |-> "Normal", runs |-> RichRuns(body)]>>
    /\ UNCHANGED body
    /\ UNCHANGED <<callVars, metaVars, sessionVars, distVars>>

\* cell.text = "": the cell's content is replaced by one paragraph holding
\* one run with the empty text
ClearedCell == <<[style |-> "Normal", runs |-> <<Run(<<>>, FALSE, FALSE)>>]>>

\* add_formatted_text(cell, body): the simple parser in the older revision,
\* the enhanced one in the newer
AddFormattedText ==
    /\ rpc = "idle"
    /\ rpc' = "add_formatted_text"
    /\ paragraphs' =
           ClearedCell \o (IF OldRevision
                           THEN SimpleParagraphs(Split(body, <<"\n">>))
                           ELSE FormattedParagraphs(Split(body, <<"\n">>)))
    /\ UNCHANGED body
    /\ UNCHANGED <<callVars, metaVars, sessionVars, distVars>>

\* add_markdown_to_doc(doc, body) on an empty document
AddMarkdownToDoc ==
    /\ rpc = "idle"
    /\ rpc' = "add_markdown_to_doc"
    /\ paragraphs' = MarkdownElements(Split(body, <<"\n">>))
    /\ UNCHANGED body
    /\ UNCHANGED <<callVars, metaVars, sessionVars, distVars>>

NextRender ==
    \/ AddRichText
    \/ AddFormattedText
    \/ AddMarkdownToDoc

\* a renderer is about to be called on some text
InitRender ==
    /\ fn \in Functions
    /\ CallIdle
    /\ MetaIdle
    /\ SessionFresh
    /\ participants = DEFAULT_PARTICIPANTS
    /\ gdrive_creds = FALSE
    /\ rpc = "idle"
    /\ body \in Bodies
    /\ paragraphs = <<>>
    /\ dist = Pending

SpecRender == InitRender /\ [][NextRender]_vars

----------------------------------------------------------------------------
(* Claims about the rendering (checked under SpecRender) *)

\* C19 as claimed: rendering the line `**bold** plain` gives exactly two runs
\* in order, a bold run with the text 'bold' and a run that is not bold with
\* the text ' plain', and no other run, not even an empty one.
C19_BoldThenPlain ==
    LET runs == Flatten([k \in 1..Len(paragraphs) |-> paragraphs[k].runs])
    IN (rpc # "idle" /\ body = <<"*", "*", "bold", "*", "*", " ", "plain">>) =>
           /\ Len(runs) = 2
           /\ runs[1].text = <<"bold">>
           /\ runs[1].bold
           /\ runs[2].text = <<" ", "plain">>
           /\ ~runs[2].bold

\* C20 as claimed: when a part of the text outside the matched **...** pairs
\* holds a "**" (one without a closing "**"), the inline pass renders those
\* asterisks literally: the run texts, one after the other, still contain a
\* "**", and no run made from a part outside the matched pairs is bold.
C20_UnmatchedLiteral ==
    LET parts == RichSplit(body)
        outside == {k \in 1..Len(parts) : k % 2 = 1}
        runs == paragraphs[1].runs
    IN (rpc = "_add_rich_text"
            /\ \E k \in outside : Contains(parts[k], <<"*", "*">>)) =>
           /\ Contains(Flatten([k \in 1..Len(runs) |-> runs[k].text]),
                       <<"*", "*">>)
           /\ \A k \in outside : ~runs[k].bold

----------------------------------------------------------------------------
(* Claims about the markdown renderers (checked under SpecRender) *)

\* the element is a table
IsTable(el) == "rows" \in DOMAIN el

\* the runs of a table, row by row and cell by cell
TableRuns(el) ==
    Flatten([i \in 1..Len(el.rows) |-> Flatten(el.rows[i])])

\* all the runs of the rendered elements, in document order
AllRuns(els) ==
    Flatten([k \in 1..Len(els) |->
                IF IsTable(els[k]) THEN TableRuns(els[k]) ELSE els[k].runs])

\* the texts of the runs, one after the other
RunText(runs) == Flatten([k \in 1..Len(runs) |-> runs[k].text])

\* C21: rendering the three lines `|A|B|`, `|-|-|`, `|1|2|` yields exactly
\* one table, with two rows (the separator line gives no row): the header
\* row with the cells A and B and every run bold, the data row with the cells
\* 1 and 2 and no run bold.
C21_TableOfTwoRows ==
    LET tables == SelectSeq(paragraphs, IsTable)
        row(i) == tables[1].rows[i]
    IN (rpc = "add_markdown_to_doc"
            /\ body = <<"|", "A", "|", "B", "|", "\n",
                        "|", "-", "|", "-", "|", "\n",
                        "|", "1", "|", "2", "|">>) =>
           /\ Len(tables) = 1
           /\ Len(tables[1].rows) = 2
           /\ [j \in 1..Len(row(1)) |-> RunText(row(1)[j])] = <<<<"A">>, <<"B">>>>
           /\ [j \in 1..Len(row(2)) |-> RunText(row(2)[j])] = <<<<"1">>, <<"2">>>>
           /\ \A j \in 1..2 : \A k \in 1..Len(row(1)[j]) : row(1)[j][k].bold
           /\ \A j \in 1..2 : \A k \in 1..Len(row(2)[j]) : ~row(2)[j][k].bold

\* the three lines have been rendered by add_markdown_to_doc
C21_Witness ==
    /\ rpc = "add_markdown_to_doc"
    /\ body = TABLE_AB
    /\ \E k \in 1..Len(paragraphs) : IsTable(paragraphs[k])

\* the closed span **w**
Span(w) == <<"*", "*", w, "*", "*">>

\* C22 as claimed: whatever the form of the line that holds it (heading,
\* bullet, table cell, plain paragraph), a closed span **w** is rendered by
\* add_formatted_text and add_markdown_to_doc as a bold run with the text w,
\* and no run keeps the asterisks.
C22_EveryFormThroughBoldPass ==
    LET runs == AllRuns(paragraphs)
        spans == {w \in {"x", "y"} : Contains(body, Span(w))}
    IN (rpc \in {"add_formatted_text", "add_markdown_to_doc"} /\ spans # {}) =>
           /\ \A w \in spans :
                 \E k \in 1..Len(runs) : runs[k].text = <<w>> /\ runs[k].bold
           /\ \A k \in 1..Len(runs) : ~Contains(runs[k].text, <<"*">>)

----------------------------------------------------------------------------
(* Claims about what the Analyze handler leaves behind *)

\* C23 as claimed (checked under SpecSession): after an Analyze that ran to
\* its end, with a result or with an error, no temporary file of it is left
\* on the disk: neither the copy of the uploaded media nor the thumbnail.
\* (The FLAC file belongs to the analysis call: flacExists under Spec.)
C23_NoTempFileLeft ==
    (last = "Analyze" /\ res # Pending /\ ~uncaught) => (~tmp /\ ~thumb)

\* C25 as claimed (checked under SpecSession): an Analyze whose analysis
\* returns an error leaves the analysis results, the chat history, the stored
\* roster and the detected date, time, title and venue as they were.
C25_ErrorLeavesSession ==
    [][(last' = "Analyze" /\ res' # Pending /\ "error" \in DOMAIN res') =>
          /\ ai_results' = ai_results
          /\ chat_history' = chat_history
          /\ saved_participants_input' = saved_participants_input
          /\ saved_participants' = saved_participants
          /\ detected' = detected]_vars

\* C26 as claimed (checked under SpecHistory): the chat turn that follows the
\* loading of a snapshot builds its prompt from the transcript and the roster
\* of a snapshot of the history, the one whose results the session holds.
C26_PromptFromLoadedSnapshot ==
    [][(last = "Load" /\ last' = "Chat") =>
          \E i \in 1..Len(drive) :
             /\ ai_results = drive[i].ai_results
             /\ TranscriptContext = drive[i].ai_results.full_transcript
             /\ ParticipantsContext = drive[i].participants]_vars

----------------------------------------------------------------------------
\* Distribution: the handler of the Generate button uploads the rendered
\* document to the drive and posts it to Basecamp
\* (upload_to_drive_user, upload_bc_attachment / upload_bc_file,
\* post_to_basecamp / post_to_bc).

\* the project tools an entity can be posted to
Tools == {"To-dos", "Message Board", "Docs & Files"}

\* how often c stands in a log of calls
Times(log, c) == Cardinality({i \in 1..Len(log) : log[i] = c})

\* the post is attempted: the older handler posts only under "if sgid:",
\* the newer one calls post_to_bc whatever upload_bc_file returned
PostAttempted(sgid) == OldRevision => sgid

\* the external calls of one press of the button, in the order issued, were
\* the failed attachment upload repeated once
DistributionCallsRetried(drive_call, do_b, sgid) ==
    (IF drive_call THEN <<"drive upload">> ELSE <<>>)
    \o (IF do_b
           THEN (IF sgid THEN <<"bc attachment">>
                         ELSE <<"bc attachment", "bc attachment">>)
                \o (IF PostAttempted(sgid) THEN <<"bc post">> ELSE <<>>)
           ELSE <<>>)

\* the external calls of one press of the button, in the order issued:
\* files().create once when the upload is ticked and credentials are held,
\* then one attachment upload and the post
DistributionCalls(drive_call, do_b, sgid) ==
    (IF drive_call THEN <<"drive upload">> ELSE <<>>)
    \o (IF do_b
           THEN <<"bc attachment">>
                \o (IF PostAttempted(sgid) THEN <<"bc post">> ELSE <<>>)
           ELSE <<>>)

\* the entities the post created: a to-do or a message carries the
\* bc-attachment tag only when an sgid is held; a vault upload is made of
\* the sgid, and the service refuses one without it
Posted(tool, sgid, accepted) ==
    IF accepted /\ (tool = "Docs & Files" => sgid)
       THEN <<[tool |-> tool, attached |-> sgid]>>
       ELSE <<>>

\* the Generate button is pressed; uploadOk: the attachment upload returned
\* an sgid, postOk: the service accepted the post
Distribute ==
    /\ pc \in {"idle", "done"}
    /\ \E do_d \in BOOLEAN, do_b \in BOOLEAN, tool \in Tools,
          uploadOk \in BOOLEAN, postOk \in BOOLEAN :
          LET sgid == do_b /\ uploadOk
              attempted == do_b /\ PostAttempted(sgid)
          IN /\ ~do_b => (tool = "To-dos" /\ ~uploadOk)
             /\ ~attempted => ~postOk
             /\ dist' = [calls |-> DistributionCalls(do_d /\ gdrive_creds,
                                                     do_b, sgid),
                         upload |-> do_b,
                         sgid |-> sgid,
                         posted |-> Posted(tool, sgid, postOk)]
    /\ pc' = "idle"
    /\ calls' = <<>>
    /\ flacExists' = FALSE
    /\ blobNamed' = FALSE
    /\ gcs_uri' = ""
    /\ opDone' = FALSE
    /\ answered' = FALSE
    /\ results' = <<>>
    /\ transcript' = <<>>
    /\ text' = <<>>
    /\ ret' = NoReturn
    /\ raised' = FALSE
    /\ UNCHANGED <<fn, metaVars, sessionVars, renderVars>>

InitActions ==
    /\ fn = GOOGLE
    /\ CallIdle
    /\ MetaIdle
    /\ SessionFresh
    /\ participants = DEFAULT_PARTICIPANTS
    /\ gdrive_creds \in BOOLEAN
    /\ RenderIdle

NextActions == Next \/ Distribute

SpecActions == InitActions /\ [][NextActions]_vars

----------------------------------------------------------------------------
\* Claims about the external calls of one user action.

\* C24: no operation is retried automatically: within one user action the
\* object-store upload, the recognition job submission, the generative call,
\* the drive upload, the Basecamp attachment upload and the post are each
\* issued at most once
C24_NoAutomaticRetry ==
    /\ \A c \in {"upload", "recognize", "generate"} : Times(calls, c) <= 1
    /\ dist # Pending =>
          \A c \in {"drive upload", "bc attachment", "bc post"} :
             Times(dist.calls, c) <= 1

\* a press of the button whose attachment upload failed and was issued once
C24_Witness ==
    /\ dist # Pending
    /\ dist.upload
    /\ ~dist.sgid
    /\ Times(dist.calls, "bc attachment") = 1

----------------------------------------------------------------------------
(* The linearized transcript, word by word (checked under SpecLin) *)

\* a transcript with its "Speaker N:" labels removed
Unlabelled(t) == SelectSeq(t, LAMBDA x : x \notin Labels)

\* the labels of a transcript, in order
LabelsOf(t) == SelectSeq(t, LAMBDA x : x \in Labels)

RECURSIVE WordsSpaced(_)
\* the words, each followed by a blank
WordsSpaced(words) ==
    IF words = <<>> THEN <<>>
    ELSE <<Head(words).word, " ">> \o WordsSpaced(Tail(words))

\* word i opens a turn: it is the first word, or its tag differs from the
\* previous word's
OpensTurn(words, i) ==
    i = 1 \/ words[i].speaker_tag # words[i - 1].speaker_tag

RECURSIVE TurnsFrom(_, _)
\* the words from the i-th on, a label before each word that opens a turn
TurnsFrom(words, i) ==
    IF i > Len(words) THEN <<>>
    ELSE (IF OpensTurn(words, i)
             THEN <<SpeakerLabel(words[i].speaker_tag)>> ELSE <<>>)
         \o <<words[i].word, " ">> \o TurnsFrom(words, i + 1)

\* the loop has run over at least one word
LinearizedWords ==
    /\ pc = "generate"
    /\ results # <<>>
    /\ ScannedWords # <<>>

\* C27: linearization keeps every recognized word exactly once and in order:
\* with the labels removed the transcript is the word sequence, a label
\* stands exactly before the first word and before each word whose tag
\* differs from the previous word's, and two consecutive labels never carry
\* the same tag
C27_WordsOnceLabelsAtTurns ==
    LinearizedWords =>
        /\ Unlabelled(transcript) = WordsSpaced(ScannedWords)
        /\ transcript = TurnsFrom(ScannedWords, 1)
        /\ \A i \in 1..(Len(LabelsOf(transcript)) - 1) :
              LabelsOf(transcript)[i] # LabelsOf(transcript)[i + 1]

\* three words, the first under tag 0, the second under the same tag, the
\* third under another one: two labels
C27_Witness ==
    /\ LinearizedWords
    /\ Len(ScannedWords) = 3
    /\ ScannedWords[1].speaker_tag = 0
    /\ ScannedWords[2].speaker_tag = 0
    /\ ScannedWords[3].speaker_tag = 1
    /\ LabelsOf(transcript) = <<SpeakerLabel(0), SpeakerLabel(1)>>
----------------------------------------------------------------------------
(* The sections of any response (checked under SpecParse) *)

\* the keys of the returned dict that hold sections of the response
SectionKeys == DOMAIN ret \ {"full_transcript"}

\* the tokens of the marker literals
MarkerTokens == UNION {Range(m) : m \in Markers}

\* the characters of s that belong to a body of the response: in the
\* responses checked each of them stands at one place of the text
BodyChars(s) == Range(s) \ (Whitespace \cup MarkerTokens)

\* C28: for any model response, markers missing, repeated or out of the
\* canonical order, no extracted section contains one of the four marker
\* literals, and no part of the response body is returned in more than one
\* section
C28_SectionsCleanAndDisjoint ==
    HasSections =>
        /\ \A k \in SectionKeys : \A m \in Markers : ~Contains(ret[k], m)
        /\ \A k1, k2 \in SectionKeys :
              k1 # k2 => BodyChars(ret[k1]) \cap BodyChars(ret[k2]) = {}
----------------------------------------------------------------------------
(* The wait for the recognition job (checked under Spec) *)

\* the call waits for the recognition job
Waiting == pc \in {"poll", "await"}

\* a step of the function itself, not of the remote job, that changes the
\* state while it waits: the loop is left, or operation.result returns or
\* raises
WaitStep == Poll \/ Await

\* C30: the analysis call always eventually returns a result or an error,
\* even if the remote recognition job never reports completion: the wait is
\* bounded by the timeout and is not an unbounded polling loop, so wherever
\* the call waits, a step of its own can end the wait without the job
C30_WaitBoundedByTimeout ==
    (Waiting /\ ~opDone) => ENABLED <<WaitStep>>_vars
=============================================================================
